---- MODULE Spec2Model ----
(***************************************************************************)
(* Model of the notification-delivery core of github-trend:                *)
(*   src/src/wecom_notifier.py  (byte budgets, split push, shrink-retry)   *)
(*   src/main.py                (run_daily_task, de-duplicated selection)  *)
(*   src/src/database.py        (push ledger: daily_push_records)          *)
(*   src/weekly.py              (run_weekly_task)                          *)
(*                                                                         *)
(* Texts are run-length encoded sequences of characters: a run             *)
(* [c |-> class, n |-> count] stands for n consecutive characters of the   *)
(* class c, and every class has the UTF-8 width of the characters it       *)
(* stands for.  len() counts characters, len(s.encode("utf-8")) counts     *)
(* bytes, s[:k] cuts on character boundaries.                              *)
(***************************************************************************)
EXTENDS Integers, Sequences, FiniteSets, Bags, TLC

(***************************************************************************)
(* Characters and texts                                                    *)
(***************************************************************************)

\* UTF-8 width of one character of a class:
\*   "a" ASCII, "nl" newline, "sp" space, "b" 2-byte (Latin supplement),
\*   "z" CJK, "e" emoji outside the BMP,
\*   "F" / "R" / "S" the CJK characters of the three truncation notices.
Width(c) ==
  CASE c \in {"a", "nl", "sp"} -> 1
    [] c = "b" -> 2
    [] c \in {"z", "F", "R", "S"} -> 3
    [] c = "e" -> 4

IsSpace(c) == c \in {"nl", "sp"}

\* n characters of class c
Txt(c, n) == IF n <= 0 THEN << >> ELSE << [c |-> c, n |-> n] >>

\* s + t
Cat(s, t) ==
  IF s = << >> THEN t
  ELSE IF t = << >> THEN s
  ELSE IF s[Len(s)].c = t[1].c
       THEN SubSeq(s, 1, Len(s) - 1)
            \o << [c |-> t[1].c, n |-> s[Len(s)].n + t[1].n] >>
            \o SubSeq(t, 2, Len(t))
       ELSE s \o t

RECURSIVE CharsInRuns(_, _, _)
\* number of characters in the runs s[i..j]
CharsInRuns(s, i, j) ==
  IF i > j THEN 0
  ELSE IF i = j THEN s[i].n
  ELSE CharsInRuns(s, i, (i + j) \div 2) + CharsInRuns(s, (i + j) \div 2 + 1, j)

RECURSIVE BytesInRuns(_, _, _)
\* number of UTF-8 bytes in the runs s[i..j]
BytesInRuns(s, i, j) ==
  IF i > j THEN 0
  ELSE IF i = j THEN s[i].n * Width(s[i].c)
  ELSE BytesInRuns(s, i, (i + j) \div 2) + BytesInRuns(s, (i + j) \div 2 + 1, j)

\* len(s)
CharLen(s) == CharsInRuns(s, 1, Len(s))

\* len(s.encode("utf-8"))
ByteLen(s) == BytesInRuns(s, 1, Len(s))

RECURSIVE CumulativeFrom(_, _, _, _, _)
\* for each of the runs s[i..j], the characters and bytes of s up to the end
\* of that run, given those (chars, bytes) before s[i]
CumulativeFrom(s, i, j, chars, bytes) ==
  IF i > j THEN << >>
  ELSE IF i = j
  THEN << [chars |-> chars + s[i].n, bytes |-> bytes + s[i].n * Width(s[i].c)] >>
  ELSE LET left == CumulativeFrom(s, i, (i + j) \div 2, chars, bytes)
       IN left \o CumulativeFrom(s, (i + j) \div 2 + 1, j,
                                 left[Len(left)].chars, left[Len(left)].bytes)

\* for each run of s, the characters and bytes of s up to the end of that run
Cumulative(s) == CumulativeFrom(s, 1, Len(s), 0, 0)

RECURSIVE RunOfChar(_, _, _, _)
\* index in lo..hi of the run that holds the k-th character (cum: Cumulative)
RunOfChar(cum, k, lo, hi) ==
  IF lo >= hi THEN lo
  ELSE LET mid == (lo + hi) \div 2
       IN IF cum[mid].chars >= k
          THEN RunOfChar(cum, k, lo, mid)
          ELSE RunOfChar(cum, k, mid + 1, hi)

\* s[:k]
Slice(s, k) ==
  IF k <= 0 THEN << >>
  ELSE IF k >= CharLen(s) THEN s
  ELSE LET cum == Cumulative(s)
           i == RunOfChar(cum, k, 1, Len(s))
       IN SubSeq(s, 1, i - 1)
          \o Txt(s[i].c, k - (IF i = 1 THEN 0 ELSE cum[i - 1].chars))

\* len(s[:k].encode("utf-8")), cum being Cumulative of s
PrefixByteLen(s, cum, k) ==
  IF k <= 0 \/ s = << >> THEN 0
  ELSE IF k >= cum[Len(s)].chars THEN cum[Len(s)].bytes
  ELSE LET i == RunOfChar(cum, k, 1, Len(s))
       IN IF i = 1 THEN k * Width(s[1].c)
          ELSE cum[i - 1].bytes + (k - cum[i - 1].chars) * Width(s[i].c)

RECURSIVE LStrip(_)
LStrip(s) == IF s # << >> /\ IsSpace(s[1].c) THEN LStrip(Tail(s)) ELSE s

RECURSIVE RStrip(_)
RStrip(s) ==
  IF s # << >> /\ IsSpace(s[Len(s)].c) THEN RStrip(SubSeq(s, 1, Len(s) - 1)) ELSE s

\* s.strip()
Strip(s) == RStrip(LStrip(s))

RECURSIVE Join(_)
\* "".join(parts)
Join(parts) ==
  IF parts = << >> THEN << >>
  ELSE IF Len(parts) = 1 THEN parts[1]
  ELSE Cat(Join(SubSeq(parts, 1, Len(parts) \div 2)),
           Join(SubSeq(parts, Len(parts) \div 2 + 1, Len(parts))))

RECURSIVE JoinLines(_)
\* "\n".join(lines)
JoinLines(lines) ==
  IF lines = << >> THEN << >>
  ELSE IF Len(lines) = 1 THEN lines[1]
  ELSE Cat(JoinLines(SubSeq(lines, 1, Len(lines) \div 2)),
           Cat(Txt("nl", 1),
               JoinLines(SubSeq(lines, Len(lines) \div 2 + 1, Len(lines)))))

(***************************************************************************)
(* WeComNotifier: byte budgets                                             *)
(***************************************************************************)

PUSH_MARKDOWN_LIMIT == 3800
RETRY_SHRINK_LIMIT == 2500
SUMMARY_CONTENT_LIMIT == 2600

RECURSIVE TruncateSearch_strict(_, _, _, _, _)
\* the while loop with < in place of <=
TruncateSearch_strict(text, cum, left, right, max_bytes) ==
  IF left < right
  THEN LET mid == (left + right + 1) \div 2
       IN IF PrefixByteLen(text, cum, mid) < max_bytes
          THEN TruncateSearch_strict(text, cum, mid, right, max_bytes)
          ELSE TruncateSearch_strict(text, cum, left, mid - 1, max_bytes)
  ELSE Slice(text, left)

RECURSIVE TruncateSearch(_, _, _, _, _)
\* the while loop of _truncate_by_bytes (cum: Cumulative of text)
TruncateSearch(text, cum, left, right, max_bytes) ==
  IF left < right
  THEN LET mid == (left + right + 1) \div 2
       IN IF PrefixByteLen(text, cum, mid) <= max_bytes
          THEN TruncateSearch(text, cum, mid, right, max_bytes)
          ELSE TruncateSearch(text, cum, left, mid - 1, max_bytes)
  ELSE Slice(text, left)

\* _truncate_by_bytes that counts characters instead of bytes
_truncate_by_bytes_chars(text, max_bytes) ==
  IF max_bytes <= 0 THEN << >> ELSE Slice(text, max_bytes)

_truncate_by_bytes(text, max_bytes) ==
  IF max_bytes <= 0 THEN << >>
  ELSE IF ByteLen(text) <= max_bytes THEN text
  ELSE TruncateSearch(text, Cumulative(text),
                      0, CharLen(text), max_bytes)

\* "\n\n（内容过长，已截断）"
FitSuffix == Cat(Txt("nl", 2), Txt("F", 10))

\* _fit_markdown_limit that does not reserve the bytes of the suffix
_fit_markdown_limit_unreserved(content) ==
  IF ByteLen(content) <= PUSH_MARKDOWN_LIMIT THEN content
  ELSE Cat(_truncate_by_bytes(content, PUSH_MARKDOWN_LIMIT), FitSuffix)

\* _fit_markdown_limit that also cuts a content of exactly the limit
_fit_markdown_limit_strict(content) ==
  IF ByteLen(content) < PUSH_MARKDOWN_LIMIT THEN content
  ELSE Cat(_truncate_by_bytes(content, PUSH_MARKDOWN_LIMIT - ByteLen(FitSuffix)),
           FitSuffix)

_fit_markdown_limit(content) ==
  IF ByteLen(content) <= PUSH_MARKDOWN_LIMIT THEN content
  ELSE IF ByteLen(FitSuffix) >= PUSH_MARKDOWN_LIMIT
       THEN _truncate_by_bytes(FitSuffix, PUSH_MARKDOWN_LIMIT)
       ELSE Cat(_truncate_by_bytes(content, PUSH_MARKDOWN_LIMIT - ByteLen(FitSuffix)),
                FitSuffix)

\* "\n\n（首次推送失败，已自动精简重发）"
RetrySuffix == Cat(Txt("nl", 2), Txt("R", 16))

\* _shrink_for_retry without the early return for short content
_shrink_for_retry_always(content) ==
  Cat(_truncate_by_bytes(content, RETRY_SHRINK_LIMIT - ByteLen(RetrySuffix)),
      RetrySuffix)

\* _shrink_for_retry that does not reserve the bytes of the suffix
_shrink_for_retry_unreserved(content) ==
  IF ByteLen(content) <= RETRY_SHRINK_LIMIT THEN content
  ELSE Cat(_truncate_by_bytes(content, RETRY_SHRINK_LIMIT), RetrySuffix)

_shrink_for_retry(content) ==
  IF ByteLen(content) <= RETRY_SHRINK_LIMIT THEN content
  ELSE LET allowed == RETRY_SHRINK_LIMIT - ByteLen(RetrySuffix)
       IN IF allowed <= 0
          THEN _truncate_by_bytes(content, RETRY_SHRINK_LIMIT)
          ELSE Cat(_truncate_by_bytes(content, allowed), RetrySuffix)

\* "\n\n（总结较长，已自动精简）"
SummarySuffix == Cat(Txt("nl", 2), Txt("S", 12))

\* "（生成总结失败）"
SummaryFailedText == Txt("z", 8)

_prepare_summary_content(summary) ==
  LET content == IF Strip(summary) # << >> THEN Strip(summary) ELSE SummaryFailedText
  IN IF ByteLen(content) <= SUMMARY_CONTENT_LIMIT THEN content
     ELSE LET allowed == SUMMARY_CONTENT_LIMIT - ByteLen(SummarySuffix)
          IN IF allowed <= 0
             THEN _truncate_by_bytes(content, SUMMARY_CONTENT_LIMIT)
             ELSE Cat(_truncate_by_bytes(content, allowed), SummarySuffix)

\* text[:max_length] + "..." when len(text) > max_length
_truncate_text(text, max_length) ==
  IF CharLen(text) <= max_length THEN text
  ELSE Cat(Slice(text, max_length), Txt("a", 3))

(***************************************************************************)
(* Projects and their AI-relevance annotations                             *)
(***************************************************************************)

\* Identifiers (repo_name) of the projects that can trend.
Repos == {"r1", "r2"}

\* TrendingProject of an identifier.  kw is the set of topic keyword groups
\* the description contains.
ProjectOf(r) ==
  IF r = "r1"
  THEN [repo_name |-> Txt("a", 12),
        description |-> [text |-> Txt("a", 40), kw |-> {"agent", "llm"}],
        language |-> Txt("a", 6),
        url |-> Txt("a", 31),
        stars |-> 1000, stars_growth |-> 0]
  ELSE [repo_name |-> Txt("a", 30),
        description |-> [text |-> Cat(Txt("z", 60), Txt("e", 60)), kw |-> {}],
        language |-> Txt("a", 7),
        url |-> Txt("a", 1500),
        stars |-> 123456, stars_growth |-> 321]

\* What a text holds of the phrases the code searches for: found is the set
\* of occurrences [marker, lower], lower telling whether the occurrence is
\* written in lower case.
\* text.lower(), on the occurrences
Lower(found) == {[marker |-> o.marker, lower |-> TRUE] : o \in found}

\* marker in text
Contains(found, marker) == [marker |-> marker, lower |-> TRUE] \in found

\* fallback_markers of _normalize_ai_highlight
fallback_markers ==
  {"keyword-based detection", "keyword based detection", "llm unavailable"}

\* FilterResult.reason of an identifier: the text and the phrases found in
\* it.  r1: " ... LLM unavailable"; r2: a long text without marker.
ReasonOf(r) ==
  IF r = "r1"
  THEN [text |-> Cat(Txt("sp", 1), Txt("a", 20)),
        found |-> {[marker |-> "llm unavailable", lower |-> FALSE]}]
  ELSE [text |-> Cat(Txt("e", 150), Txt("nl", 1)), found |-> {}]

RECURSIVE NumDigits(_)
\* len(str(n)) for n >= 0
NumDigits(n) == IF n < 10 THEN 1 ELSE 1 + NumDigits(n \div 10)

\* f"{n:,}"
Thousands(n) == Txt("a", NumDigits(n) + (NumDigits(n) - 1) \div 3)

\* report_date.strftime('%Y-%m-%d')
DateText == Txt("a", 10)

\* "\n---\n⏰ 由GitHub-Trend-Bot自动推送"
Footer ==
  Join(<< Txt("nl", 1), Txt("a", 3), Txt("nl", 1), Txt("z", 1), Txt("sp", 1),
          Txt("z", 1), Txt("a", 16), Txt("z", 4) >>)

\* "\n---\n"
Separator == Join(<< Txt("nl", 1), Txt("a", 3), Txt("nl", 1) >>)

\* f"基于项目描述中的关键词判定，该项目与 {area}相关，建议后续结合 README 做进一步复核。"
CannedHighlight(area) ==
  Join(<< Txt("z", 18), Txt("sp", 1), area, Txt("z", 9), Txt("sp", 1),
          Txt("a", 6), Txt("sp", 1), Txt("z", 7) >>)

\* The keywords _normalize_ai_highlight looks for in description.lower();
\* description.kw is the set of those the description contains.
AgentKeywords == {"agent", "assistant", "copilot", "workflow"}
LlmKeywords == {"llm", "gpt", "chat", "rag", "prompt"}
VisionKeywords == {"vision", "image", "video", "multimodal"}

\* "AI Agent/智能助手方向", "LLM 应用方向", "多模态/视觉方向", "AI 应用或工具方向"
AreaText(area) ==
  IF area = "agent" THEN Join(<< Txt("a", 2), Txt("sp", 1), Txt("a", 6), Txt("z", 6) >>)
  ELSE IF area = "llm" THEN Join(<< Txt("a", 3), Txt("sp", 1), Txt("z", 4) >>)
  ELSE IF area = "vision" THEN Join(<< Txt("z", 3), Txt("a", 1), Txt("z", 4) >>)
  ELSE Join(<< Txt("a", 2), Txt("sp", 1), Txt("z", 7) >>)

\* _normalize_ai_highlight that searches the reason as written
_normalize_ai_highlight_cased(reason, description) ==
  LET normalized == Strip(reason.text)
  IN IF normalized = << >>
        \/ \E marker \in fallback_markers : Contains(reason.found, marker)
     THEN LET area ==
                IF description.kw \cap AgentKeywords # {} THEN "agent"
                ELSE IF description.kw \cap LlmKeywords # {} THEN "llm"
                ELSE IF description.kw \cap VisionKeywords # {} THEN "vision"
                ELSE "generic"
          IN CannedHighlight(AreaText(area))
     ELSE normalized

_normalize_ai_highlight(reason, description) ==
  LET normalized == Strip(reason.text)
      lower_reason == Lower(reason.found)
  IN IF normalized = << >>
        \/ \E marker \in fallback_markers : Contains(lower_reason, marker)
     THEN LET area ==
                IF description.kw \cap AgentKeywords # {} THEN "agent"
                ELSE IF description.kw \cap LlmKeywords # {} THEN "llm"
                ELSE IF description.kw \cap VisionKeywords # {} THEN "vision"
                ELSE "generic"
          IN CannedHighlight(AreaText(area))
     ELSE normalized

\* emojis[idx] if idx < len(emojis) else f"{idx+1}."   (idx is 0-based)
RankGlyph(idx) ==
  IF idx < 9 THEN Cat(Txt("a", 1), Txt("z", 2))
  ELSE IF idx = 9 THEN Txt("e", 1)
  ELSE Txt("a", NumDigits(idx + 1) + 1)

\* the five lines of one project in _format_daily_top_message
ItemLines(idx, r, for_push) ==
  LET project == ProjectOf(r)
      growth_str == IF project.stars_growth > 0
                    THEN Txt("a", 1 + NumDigits(project.stars_growth))
                    ELSE << >>
      short_desc == _truncate_text(project.description.text,
                                   IF for_push THEN 80 ELSE 100)
      short_reason == _truncate_text(
                        _normalize_ai_highlight(ReasonOf(r), project.description),
                        IF for_push THEN 120 ELSE 1200)
  IN << Join(<< Txt("nl", 1), RankGlyph(idx), Txt("sp", 1), Txt("a", 2),
                project.repo_name, Txt("a", 2), Txt("sp", 1), Txt("z", 1),
                Txt("sp", 1), Thousands(project.stars), Txt("sp", 1),
                Txt("a", 1), growth_str, Txt("a", 1) >>),
        Join(<< Txt("e", 1), Txt("sp", 1), project.language >>),
        Join(<< Txt("e", 1), Txt("sp", 1), short_desc >>),
        Join(<< Txt("e", 1), Txt("sp", 1), Txt("a", 2), Txt("z", 3), short_reason >>),
        Join(<< Txt("e", 1), Txt("sp", 1), Txt("a", 1), Txt("z", 4), Txt("a", 2),
                project.url, Txt("a", 1), Txt("nl", 1) >>) >>

RECURSIVE AllItemLines(_, _, _)
\* the lines of projects_with_reasons[idx:]
AllItemLines(projects, idx, for_push) ==
  IF idx >= Len(projects) THEN << >>
  ELSE ItemLines(idx, projects[idx + 1], for_push)
       \o AllItemLines(projects, idx + 1, for_push)

_format_daily_top_message(projects_with_reasons, for_push) ==
  LET limit == Len(projects_with_reasons)
      head == << Join(<< Txt("e", 1), Txt("sp", 1), Txt("a", 2), Txt("z", 2),
                         Txt("a", 6), Txt("sp", 1), Txt("a", 2), Txt("z", 2),
                         Txt("sp", 1), Txt("a", 3), Txt("sp", 1),
                         Txt("a", NumDigits(limit)), Txt("a", 2) >>),
                 Join(<< Txt("nl", 1), Txt("e", 1), Txt("sp", 1), DateText >>),
                 Separator >>
      message == JoinLines(head \o AllItemLines(projects_with_reasons, 0, for_push)
                                \o << Footer >>)
  IN IF for_push THEN _fit_markdown_limit(message) ELSE message

\* "📝 **AI智能总结 & 业务价值分析**"
SummaryHeading ==
  Join(<< Txt("e", 1), Txt("sp", 1), Txt("a", 4), Txt("z", 4), Txt("sp", 1),
          Txt("a", 1), Txt("sp", 1), Txt("z", 6), Txt("a", 2) >>)

_format_daily_summary_message(summary, for_push) ==
  LET message == JoinLines(<< SummaryHeading,
                              Join(<< Txt("nl", 1), Txt("e", 1), Txt("sp", 1), DateText >>),
                              Separator,
                              _prepare_summary_content(summary),
                              Footer >>)
  IN IF for_push THEN _fit_markdown_limit(message) ELSE message

_format_weekly_summary_message(summary, for_push) ==
  LET message == JoinLines(<< SummaryHeading,
                              Join(<< Txt("nl", 1), Txt("e", 1), Txt("sp", 1), DateText,
                                      Txt("sp", 1), Txt("a", 1), Txt("sp", 1), DateText >>),
                              Separator,
                              _prepare_summary_content(summary),
                              Footer >>)
  IN IF for_push THEN _fit_markdown_limit(message) ELSE message

\* (trend_message, summary_message)
format_daily_push_messages(projects_with_reasons, summary) ==
  << _format_daily_top_message(projects_with_reasons, TRUE),
     _format_daily_summary_message(summary, TRUE) >>

format_weekly_push_messages(report_content, summary) ==
  << _fit_markdown_limit(report_content),
     _format_weekly_summary_message(summary, TRUE) >>

(***************************************************************************)
(* Dates                                                                   *)
(***************************************************************************)

\* Largest day number of the model; day 0 is 2026-02-22, so that the days
\* cross the end of February.
MaxDay == 7
Days == 0..MaxDay

\* Offset of day 0 from 2026-01-01.
EpochOffset == 31 + 21

DaysInMonth(m) == IF m = 2 THEN 28 ELSE IF m \in {4, 6, 9, 11} THEN 30 ELSE 31

RECURSIVE MonthDay(_, _)
\* month and day of the date that lies k days after the first of month m (2026)
MonthDay(m, k) ==
  IF k < DaysInMonth(m) THEN [year |-> 2026, month |-> m, day |-> k + 1]
  ELSE MonthDay(m + 1, k - DaysInMonth(m))

\* the datetime.date of a day number (day numbers may be negative:
\* reference_date - timedelta(days=...))
DateOf(d) == MonthDay(1, d + EpochOffset)

\* date.isoformat(): the characters of "YYYY-MM-DD" as code points
isoformat(date) ==
  << 48 + (date.year \div 1000), 48 + ((date.year \div 100) % 10),
     48 + ((date.year \div 10) % 10), 48 + (date.year % 10), 45,
     48 + (date.month \div 10), 48 + (date.month % 10), 45,
     48 + (date.day \div 10), 48 + (date.day % 10) >>

\* a <= b for two strings, compared code point by code point (SQLite BINARY
\* collation of TEXT values)
TextLeq(a, b) ==
  LET common == IF Len(a) < Len(b) THEN Len(a) ELSE Len(b)
      diff == {i \in 1..common : a[i] # b[i]}
  IN IF diff = {} THEN Len(a) <= Len(b)
     ELSE LET i == CHOOSE j \in diff : \A k \in diff : j <= k
          IN a[i] < b[i]

(***************************************************************************)
(* Database: the push ledger (table daily_push_records)                    *)
(***************************************************************************)

\* The table is the bag of its rows' (repo_name, pushed_date) columns; the
\* columns id and created_at are never read.

\* a plain INSERT into a table without the UNIQUE constraint
InsertOrIgnore_always(rows, row) == rows (+) SetToBag({row})

\* INSERT OR IGNORE of one row under UNIQUE(repo_name, pushed_date)
InsertOrIgnore(rows, row) ==
  IF BagIn(row, rows) THEN rows ELSE rows (+) SetToBag({row})

RECURSIVE ExecuteMany(_, _)
\* cursor.executemany(INSERT OR IGNORE ..., values)
ExecuteMany(rows, values) ==
  IF values = << >> THEN rows
  ELSE ExecuteMany(InsertOrIgnore(rows, Head(values)), Tail(values))

\* save_daily_push_records that rewrites the table with the new rows
save_daily_push_records_rewriting(rows, repo_names, pushed_date) ==
  IF repo_names = << >> THEN rows
  ELSE ExecuteMany(EmptyBag, [i \in 1..Len(repo_names) |->
                                [repo_name |-> repo_names[i],
                                 pushed_date |-> isoformat(DateOf(pushed_date))]])

save_daily_push_records(rows, repo_names, pushed_date) ==
  IF repo_names = << >> THEN rows
  ELSE ExecuteMany(rows, [i \in 1..Len(repo_names) |->
                            [repo_name |-> repo_names[i],
                             pushed_date |-> isoformat(DateOf(pushed_date))]])

\* get_recently_pushed_repo_names with the window
\* [reference_date - lookback_days, reference_date - 1]
get_recently_pushed_repo_names_before(rows, lookback_days, reference_date) ==
  IF lookback_days < 1 THEN {}
  ELSE {row.repo_name :
          row \in {e \in BagToSet(rows) :
                     /\ TextLeq(isoformat(DateOf(reference_date - lookback_days)),
                                e.pushed_date)
                     /\ TextLeq(e.pushed_date,
                                isoformat(DateOf(reference_date - 1)))}}

\* get_recently_pushed_repo_names with the window
\* [reference_date - lookback_days, reference_date]
get_recently_pushed_repo_names_wide(rows, lookback_days, reference_date) ==
  IF lookback_days < 1 THEN {}
  ELSE {row.repo_name :
          row \in {e \in BagToSet(rows) :
                     /\ TextLeq(isoformat(DateOf(reference_date - lookback_days)),
                                e.pushed_date)
                     /\ TextLeq(e.pushed_date, isoformat(DateOf(reference_date)))}}

get_recently_pushed_repo_names(rows, lookback_days, reference_date) ==
  IF lookback_days < 1 THEN {}
  ELSE LET window_start == reference_date - (lookback_days - 1)
       IN {row.repo_name :
             row \in {e \in BagToSet(rows) :
                        /\ TextLeq(isoformat(DateOf(window_start)), e.pushed_date)
                        /\ TextLeq(e.pushed_date, isoformat(DateOf(reference_date)))}}

(***************************************************************************)
(* main.py: selection of the daily batch                                   *)
(***************************************************************************)

DAILY_PUSH_LIMIT == 5
RECENT_PUSH_LOOKBACK_DAYS == 7

RECURSIVE NotRecentlyPushed(_, _)
\* [item for item in ai_projects if item[0].repo_name not in recent_pushed]
NotRecentlyPushed(ai, recent_pushed) ==
  IF ai = << >> THEN << >>
  ELSE IF Head(ai) \in recent_pushed
       THEN NotRecentlyPushed(Tail(ai), recent_pushed)
       ELSE << Head(ai) >> \o NotRecentlyPushed(Tail(ai), recent_pushed)

\* FirstItems without the cap
FirstItems_uncapped(items, limit) == items

\* items[:limit]
FirstItems(items, limit) ==
  SubSeq(items, 1, IF Len(items) < limit THEN Len(items) ELSE limit)

\* select_daily_projects_for_push without the exclusion of pushed identifiers
select_daily_projects_for_push_unfiltered(ai, rows, day) ==
  FirstItems(ai, DAILY_PUSH_LIMIT)

select_daily_projects_for_push(ai, rows, day) ==
  LET recent_pushed ==
        get_recently_pushed_repo_names(rows, RECENT_PUSH_LOOKBACK_DAYS, day)
  IN FirstItems(NotRecentlyPushed(ai, recent_pushed), DAILY_PUSH_LIMIT)

(***************************************************************************)
(* AIFilter: the health flags and the daily summary                        *)
(***************************************************************************)

\* SUMMARY_BLOCKLIST; the last four markers stand for the Chinese ones
\* (沙箱, 无法读取, 权限, 技能文件).
SUMMARY_BLOCKLIST ==
  {"using-superpowers", "skill.md", "/users/", "/private/tmp",
   "sandbox", "cannot-read", "permission", "skill-file"}

\* AIFilter.__init__: the per-run health flags
NewAIFilter ==
  [last_filter_had_llm_failure |-> FALSE, last_summary_had_llm_failure |-> FALSE]

AI_KEYWORDS ==
  {"ai", "ml", "machine learning", "deep learning", "neural network", "llm",
   "gpt", "transformer", "bert", "chatbot", "computer vision", "nlp",
   "natural language", "opencv", "tensorflow", "pytorch", "stable diffusion",
   "gan", "generative", "diffusion model", "embedding", "vector database",
   "rag", "agent", "langchain"}

\* _keyword_fallback(project.description + " " + project.repo_name), kw being
\* the keywords the lower-cased text contains
_keyword_fallback(kw) == kw \cap AI_KEYWORDS # {}

\* "基于项目描述中的关键词判定（LLM暂不可用）": the text holds "LLM", in upper
\* case, and none of the phrases of fallback_markers
KeywordFallbackReason ==
  [text |-> Join(<< Txt("z", 14), Txt("a", 3), Txt("z", 5) >>),
   found |-> {[marker |-> "llm", lower |-> FALSE]}]

\* FilterResult, and whether the except branch was taken
FilterResult(is_ai, reason, failed) ==
  [is_ai_related |-> is_ai, reason |-> reason, failed |-> failed]

\* answer: what the LLM request of is_ai_related does, [raises, is_ai_related,
\* reason]; raises stands for any exception of the try block (request,
\* malformed JSON).
is_ai_related(r, answer) ==
  IF answer.raises
  THEN FilterResult(_keyword_fallback(ProjectOf(r).description.kw),
                    KeywordFallbackReason, TRUE)
  ELSE FilterResult(answer.is_ai_related, answer.reason, FALSE)

\* batch_filter that does not reset the flag
batch_filter_unreset(self, projects, answers) ==
  LET all == [i \in 1..Len(projects) |->
                [project |-> projects[i],
                 result |-> is_ai_related(projects[i], answers[i])]]
  IN [self |-> [self EXCEPT !.last_filter_had_llm_failure =
                              @ \/ \E i \in 1..Len(all) : all[i].result.failed],
      results |-> SelectSeq(all, LAMBDA x : x.result.is_ai_related)]

\* batch_filter on the AIFilter self; answers[i] is the LLM's answer for
\* projects[i].  Returns the filter afterwards and the kept pairs.
batch_filter(self, projects, answers) ==
  LET all == [i \in 1..Len(projects) |->
                [project |-> projects[i],
                 result |-> is_ai_related(projects[i], answers[i])]]
  IN [self |-> [self EXCEPT !.last_filter_had_llm_failure =
                              \E i \in 1..Len(all) : all[i].result.failed],
      results |-> SelectSeq(all, LAMBDA x : x.result.is_ai_related)]

\* A summary is a text together with what the code and the claims look for
\* in it:
\*   found     the occurrences of blocklist markers, each with whether it is
\*             written in lower case ([marker, lower])
\*   headings  the section headings it contains: "trend" (每日趋势总结),
\*             "value" (🚀 **搜狐业务价值分析**)
\*   names     the identifiers of the projects it names through
\*             _build_fallback_summary
SummaryOf(text, found, headings, names) ==
  [text |-> text, found |-> found, headings |-> headings, names |-> names]

\* return ""
EmptySummary == SummaryOf(<< >>, {}, {}, << >>)

\* Occurrences of blocklist markers in the repo_name of an identifier: r3 is
\* a repository named "<owner>/using-superpowers".
FoundInName(r) ==
  IF r = "r3" THEN {[marker |-> "using-superpowers", lower |-> TRUE]} ELSE {}

_is_invalid_summary(summary) ==
  IF summary.text = << >> \/ Strip(summary.text) = << >> THEN TRUE
  ELSE LET lower_text == Lower(summary.found)
       IN \E marker \in SUMMARY_BLOCKLIST : Contains(lower_text, marker)

RECURSIVE JoinNames(_)
\* "、".join([project.repo_name for project, _ in projects])
JoinNames(projects) ==
  IF projects = << >> THEN << >>
  ELSE IF Len(projects) = 1 THEN ProjectOf(projects[1]).repo_name
  ELSE Join(<< ProjectOf(projects[1]).repo_name, Txt("z", 1),
               JoinNames(Tail(projects)) >>)

\* "## 每日趋势总结\n\n今日热点主要集中在 AI Agent、LLM 应用与工程工具链，代表项目包括："
FallbackLead ==
  Join(<< Txt("a", 2), Txt("sp", 1), Txt("z", 6), Txt("nl", 2), Txt("z", 9),
          Txt("sp", 1), Txt("a", 2), Txt("sp", 1), Txt("a", 5), Txt("z", 1),
          Txt("a", 3), Txt("sp", 1), Txt("z", 16) >>)

\* "。\n\n🚀 **搜狐业务价值分析**\n\n- 搜索引擎：...\n- 推荐系统：...\n- AI基础设施：..."
FallbackRest ==
  Join(<< Txt("z", 1), Txt("nl", 2), Txt("e", 1), Txt("sp", 1), Txt("a", 2),
          Txt("z", 8), Txt("a", 2), Txt("nl", 2), Txt("a", 1), Txt("sp", 1),
          Txt("z", 29), Txt("nl", 1), Txt("a", 1), Txt("sp", 1), Txt("z", 30),
          Txt("nl", 1), Txt("a", 1), Txt("sp", 1), Txt("a", 2), Txt("z", 11),
          Txt("sp", 1), Txt("a", 3), Txt("sp", 1), Txt("z", 18) >>)

_build_fallback_summary(projects) ==
  LET named == FirstItems(projects, 3)
      \* ... or "今日上榜项目"
      top_names == IF JoinNames(named) # << >> THEN JoinNames(named)
                   ELSE Txt("z", 6)
  IN SummaryOf(Join(<< FallbackLead, top_names, FallbackRest >>),
               UNION {FoundInName(named[i]) : i \in 1..Len(named)},
               {"trend", "value"},
               named)

\* What generate_daily_summary returns and leaves behind: the summary, the
\* flag last_summary_had_llm_failure, and whether it raised instead.
SummaryResult(summary, failure, raised) ==
  [summary |-> summary, last_summary_had_llm_failure |-> failure, raised |-> raised]

\* generate_daily_summary whose completion request is not guarded by try
generate_daily_summary_unguarded(projects, completion) ==
  IF projects = << >> THEN SummaryResult(EmptySummary, FALSE, FALSE)
  ELSE IF completion.raises THEN SummaryResult(EmptySummary, FALSE, TRUE)
  ELSE LET summary_text == [completion.content EXCEPT !.text = Strip(@)]
       IN IF _is_invalid_summary(summary_text)
          THEN SummaryResult(_build_fallback_summary(projects), TRUE, FALSE)
          ELSE SummaryResult(summary_text, FALSE, FALSE)

\* completion: what client.chat.completions.create does for the summary
\* prompt, [raises, content].
generate_daily_summary(projects, completion) ==
  IF projects = << >> THEN SummaryResult(EmptySummary, FALSE, FALSE)
  ELSE IF completion.raises
       THEN SummaryResult(_build_fallback_summary(projects), TRUE, FALSE)
  ELSE LET summary_text == [completion.content EXCEPT !.text = Strip(@)]
       IN IF _is_invalid_summary(summary_text)
          THEN SummaryResult(_build_fallback_summary(projects), TRUE, FALSE)
          ELSE SummaryResult(summary_text, FALSE, FALSE)

(***************************************************************************)
(* WeComNotifier: one send_markdown call                                   *)
(***************************************************************************)

\* What the transport can answer to one requests.post:
\*   "errcode0"   HTTP 200, JSON body with errcode == 0
\*   "errcode"    HTTP 200, JSON body with another errcode
\*   "no_errcode" HTTP 200, JSON body without errcode
\*   "exception"  requests.RequestException (connection, timeout, HTTP status)
Responses == {"errcode0", "errcode", "no_errcode", "exception"}

\* _send_markdown_once that reports a transport error like an API answer
_send_markdown_once_answered(resp) ==
  [success |-> resp = "errcode0", result |-> resp]

\* (success, api_result) of _send_markdown_once
_send_markdown_once(resp) ==
  IF resp = "exception" THEN [success |-> FALSE, result |-> "None"]
  ELSE [success |-> resp = "errcode0", result |-> resp]

\* AfterFirstAttempt that takes an answer without errcode for a success
AfterFirstAttempt_lenient(fitted, resp) ==
  LET once == _send_markdown_once(resp)
      shrunk_message == _shrink_for_retry(fitted)
  IN IF once.success \/ resp = "no_errcode"
     THEN [verdict |-> "true", retry_content |-> << >>]
     ELSE IF once.result = "None" THEN [verdict |-> "false", retry_content |-> << >>]
     ELSE IF shrunk_message = fitted THEN [verdict |-> "false", retry_content |-> << >>]
     ELSE [verdict |-> "retry", retry_content |-> shrunk_message]

\* send_markdown after the answer to its first request: verdict "true" /
\* "false" is what it returns, "retry" means that it posts retry_content
AfterFirstAttempt(fitted, resp) ==
  LET once == _send_markdown_once(resp)
      shrunk_message == _shrink_for_retry(fitted)
  IN IF once.success THEN [verdict |-> "true", retry_content |-> << >>]
     ELSE IF once.result = "None" THEN [verdict |-> "false", retry_content |-> << >>]
     ELSE IF shrunk_message = fitted THEN [verdict |-> "false", retry_content |-> << >>]
     ELSE [verdict |-> "retry", retry_content |-> shrunk_message]

\* AfterRetry that shortens and posts again after a rejected retry
AfterRetry_again(resp) ==
  IF _send_markdown_once(resp).success
  THEN [verdict |-> "true", retry_content |-> << >>]
  ELSE [verdict |-> "retry", retry_content |-> << >>]

\* send_markdown after the answer to its retry
AfterRetry(resp) ==
  IF _send_markdown_once(resp).success
  THEN [verdict |-> "true", retry_content |-> << >>]
  ELSE [verdict |-> "false", retry_content |-> << >>]

\* AfterFirstMessage without the check of the first result
AfterFirstMessage_unchecked(first_returned) == "sleep"

\* send_*_report_split after its first send_markdown returned:
\* "sleep" = go on to time.sleep(1) and the second message, "false" = return False
AfterFirstMessage(first_returned) ==
  IF first_returned # "true" THEN "false" ELSE "sleep"

\* LedgerAfterPush that records whatever the push returned
LedgerAfterPush_unconditional(success, rows, batch, day) ==
  save_daily_push_records(rows, batch, day)

\* run_daily_task after send_daily_report_split returned success
LedgerAfterPush(success, rows, batch, day) ==
  IF success = "true" THEN save_daily_push_records(rows, batch, day) ELSE rows

(***************************************************************************)
(* Inputs                                                                  *)
(***************************************************************************)

\* A trending page lists every repository at most once.
TrendingLists ==
  {l \in UNION {[1..n -> Repos] : n \in 0..Cardinality(Repos)} :
     \A i, j \in 1..Len(l) : l[i] = l[j] => i = j}

\* Texts returned by generate_daily_summary / the weekly summary analysis.
SummaryShort == Cat(Txt("a", 40), Txt("z", 100))
SummaryLong == Join(<< Txt("sp", 2), Txt("z", 700), Txt("e", 200), Txt("a", 300), Txt("nl", 1) >>)
SummaryTexts == {SummaryShort, SummaryLong}

\* What the LLM does with the summary prompt of a run.
Completion(text, found) ==
  [raises |-> FALSE, content |-> SummaryOf(text, found, {"trend", "value"}, << >>)]

GeneratedShort == Completion(SummaryShort, {})
GeneratedLong == Completion(SummaryLong, {})
\* the request raises (timeout, HTTP error, content None)
GeneratedRaise == [raises |-> TRUE, content |-> EmptySummary]
\* whitespace only
GeneratedBlank == Completion(Cat(Txt("sp", 2), Txt("nl", 1)), {})
\* "我按说明本应先使用 using-superpowers 等技能文件，但这些路径位于 /Users/... 无法读取 SKILL.md。"
GeneratedLeak ==
  Completion(Join(<< Txt("z", 9), Txt("sp", 1), Txt("a", 17), Txt("sp", 1),
                     Txt("z", 13), Txt("sp", 1), Txt("a", 11), Txt("sp", 1),
                     Txt("z", 4), Txt("sp", 1), Txt("a", 8), Txt("z", 1) >>),
             {[marker |-> "using-superpowers", lower |-> TRUE],
              [marker |-> "skill-file", lower |-> TRUE],
              [marker |-> "/users/", lower |-> FALSE],
              [marker |-> "cannot-read", lower |-> TRUE],
              [marker |-> "skill.md", lower |-> FALSE]})
\* a summary in plain prose, without the two section headings
GeneratedPlain ==
  [raises |-> FALSE, content |-> SummaryOf(Cat(Txt("z", 120), Txt("a", 30)), {}, {}, << >>)]
Completions ==
  {GeneratedShort, GeneratedLong, GeneratedRaise, GeneratedBlank, GeneratedLeak,
   GeneratedPlain}

\* Weekly report bodies (generate_report_package()["report"]).
ReportShort == Cat(Txt("a", 200), Txt("z", 100))
ReportMedium == Cat(Txt("z", 900), Txt("a", 200))
ReportLong == Join(<< Txt("a", 100), Txt("e", 500), Txt("z", 700), Txt("b", 50) >>)
WeeklyReports == {ReportShort, ReportMedium, ReportLong}

\* str(e) of an exception raised inside the pipeline; "none": nothing raised.
ErrorText(err) == IF err = "short" THEN Txt("a", 30) ELSE Cat(Txt("a", 3000), Txt("z", 400))
Errors == {"none", "short", "long"}

\* "⚠️ 今日未发现AI相关趋势项目"
NoProjectsWarning == Join(<< Txt("z", 2), Txt("sp", 1), Txt("z", 5), Txt("a", 2), Txt("z", 6) >>)
\* "⚠️ 今日候选项目均在最近7天内已推送，已自动跳过。"
AllPushedWarning == Join(<< Txt("z", 2), Txt("sp", 1), Txt("z", 10), Txt("a", 1), Txt("z", 12) >>)
\* f"⚠️ 每日任务执行失败：{str(e)}"
DailyFailureNotice(err) == Join(<< Txt("z", 2), Txt("sp", 1), Txt("z", 9), ErrorText(err) >>)
\* f"⚠️ 周报生成失败：{str(e)}"
WeeklyFailureNotice(err) == Join(<< Txt("z", 2), Txt("sp", 1), Txt("z", 7), ErrorText(err) >>)

\* a task whose finally clause does not close the connection
ConnAfter_leaking(position) == "open"

\* db = Database() before the try block, finally: db.close() when the task
\* leaves it, by return or by exception: the connection of a task that is
\* at position
ConnAfter(position) == IF position = "done" THEN "closed" ELSE "open"

\* The two runs of the side-by-side executions.
Runs == {1, 2}

\* a run that has not started
NoRuns ==
  [p \in Runs |->
     [pc |-> "idle", ai |-> << >>, top |-> << >>, i |-> 0,
      in_transaction |-> FALSE, wrote |-> FALSE, raised_in |-> "none"]]

\* init_db on an empty file; writer: the run whose connection holds the
\* write lock, 0 when it is free
EmptyDb == [projects |-> {}, trend_records |-> {}, writer |-> 0]

(***************************************************************************)
(* State                                                                   *)
(***************************************************************************)

VARIABLES
  today,            \* date.today(), as a day number
  ledger,           \* the rows of daily_push_records, as a bag
  query,            \* << >>, or the get_recently_pushed_repo_names call that
                    \* was made on its own and its result
  task,             \* "none" | "daily" | "weekly": the task that is running
  dry_run,          \* its dry_run argument
  ai_projects,      \* run_daily_task: batch_filter's result (identifiers)
  top_projects,     \* run_daily_task: the selected batch
  trend_message,    \* the first message of the split push
  summary_message,  \* the second message of the split push
  pc,               \* "idle" | "req1" | "req2" | "sleep" | "done" | "selected"
  cur,              \* the send_markdown call in progress:
                    \*   "first" | "second" | "warn" | "notice" | "none"
  message,          \* send_markdown's fitted message
  requests,         \* the requests.post calls of the running task, in order
  ret,              \* what each send_markdown call of the task returned
  split_ret,        \* what send_*_report_split returned
  outcome,          \* "none" | "returned" | "raised"
  last_digest,      \* per identifier, the last day on which a digest that
                    \* lists it was accepted by the channel (-1: never)
  applied,          \* << >>, or the call of a function that was made on its
                    \* own (outside a task): its name, arguments and result
  ai_filter,        \* run_daily_task: the health flags of its AIFilter
  generated,        \* run_daily_task: << >>, or what the LLM did with the
                    \* summary prompt of the run
  runs,             \* two run_daily_task executions side by side: per run
                    \* its position, lists, open transaction and error
  db,               \* for these runs: the rows of projects and trend_records
                    \* and the connection that holds SQLite's write lock
  conn              \* "none" | "open" | "closed": the Database connection
                    \* of the running task

vars == << today, ledger, query, task, dry_run, ai_projects, top_projects,
           trend_message, summary_message, pc, cur, message, requests, ret, split_ret,
           outcome, last_digest, applied, ai_filter, generated, runs, db, conn >>

NoReturns == [first |-> "none", second |-> "none", warn |-> "none", notice |-> "none"]

Init ==
  /\ today = 0
  /\ ledger = EmptyBag
  /\ query = << >>
  /\ task = "none"
  /\ dry_run = FALSE
  /\ ai_projects = << >>
  /\ top_projects = << >>
  /\ trend_message = << >>
  /\ summary_message = << >>
  /\ pc = "idle"
  /\ cur = "none"
  /\ message = << >>
  /\ requests = << >>
  /\ ret = NoReturns
  /\ split_ret = "none"
  /\ outcome = "none"
  /\ last_digest = [r \in Repos |-> -1]
  /\ applied = << >>
  /\ ai_filter = NewAIFilter
  /\ generated = << >>
  /\ runs = NoRuns
  /\ db = EmptyDb
  /\ conn = "none"

(***************************************************************************)
(* Steps.  A step runs the code from one blocking call (a requests.post,   *)
(* the time.sleep) to the next one or to the end of the task.              *)
(***************************************************************************)

\* send_markdown(content) up to its first requests.post, as call `call`
BeginSend(call, content) ==
  /\ message' = _fit_markdown_limit(content)
  /\ requests' = Append(requests, [call |-> call, attempt |-> 1,
                                   content |-> message', resp |-> "pending"])
  /\ cur' = call
  /\ pc' = "req1"
  /\ outcome' = "none"

\* EndWithoutSend of a task that notifies whether or not it is a dry run
EndWithoutSend_notifying(how) ==
  BeginSend("notice", DailyFailureNotice("short"))

\* the task ends without a send
EndWithoutSend(how) ==
  /\ pc' = "done"
  /\ outcome' = how
  /\ UNCHANGED << cur, message, requests >>

\* run_daily_task up to its first send.  daily_ai / weekly_ai: the AI-related
\* projects of the two trending pages, filter_failure: whether a request of
\* batch_filter failed, completion: what the LLM does with the summary
\* prompt, err: the exception raised before the filter, if any.
StartDaily(daily_ai, weekly_ai, filter_failure, completion, dry, err) ==
  /\ pc = "idle"
  /\ task' = "daily"
  /\ dry_run' = dry
  /\ UNCHANGED << today, ledger, query, ret, split_ret, last_digest, applied,
                  runs, db >>
  /\ IF err # "none"
     THEN /\ ai_projects' = << >>
          /\ top_projects' = << >>
          /\ trend_message' = << >>
          /\ summary_message' = << >>
          /\ ai_filter' = NewAIFilter
          /\ generated' = << >>
          /\ IF dry THEN EndWithoutSend("raised")
             ELSE BeginSend("notice", DailyFailureNotice(err))
     ELSE LET ai == daily_ai \o weekly_ai
              filtered == [NewAIFilter EXCEPT !.last_filter_had_llm_failure = filter_failure]
              top == select_daily_projects_for_push(ai, ledger, today)
              generation == generate_daily_summary(top, completion)
          IN /\ ai_projects' = ai
             /\ top_projects' = top
             /\ IF ai = << >>
                THEN /\ trend_message' = << >>
                     /\ summary_message' = << >>
                     /\ ai_filter' = filtered
                     /\ generated' = << >>
                     /\ IF dry THEN EndWithoutSend("returned")
                        ELSE BeginSend("warn", NoProjectsWarning)
                ELSE IF top = << >>
                THEN /\ trend_message' = << >>
                     /\ summary_message' = << >>
                     /\ ai_filter' = filtered
                     /\ generated' = << >>
                     /\ IF dry THEN EndWithoutSend("returned")
                        ELSE BeginSend("warn", AllPushedWarning)
                ELSE IF generation.raised
                THEN /\ trend_message' = << >>
                     /\ summary_message' = << >>
                     /\ ai_filter' = filtered
                     /\ generated' = << completion >>
                     /\ IF dry THEN EndWithoutSend("raised")
                        ELSE BeginSend("notice", DailyFailureNotice("short"))
                ELSE /\ ai_filter' =
                          [filtered EXCEPT !.last_summary_had_llm_failure =
                                             generation.last_summary_had_llm_failure]
                     /\ generated' = << completion >>
                     /\ IF dry
                        THEN /\ trend_message' = << >>
                             /\ summary_message' = << >>
                             /\ EndWithoutSend("returned")
                        ELSE \E messages \in
                                  {format_daily_push_messages(top, generation.summary.text)} :
                                /\ trend_message' = messages[1]
                                /\ summary_message' = messages[2]
                                /\ BeginSend("first", messages[1])
  /\ conn' = ConnAfter(pc')

\* run_weekly_task up to its first send
StartWeekly(report, summary, dry, err) ==
  /\ pc = "idle"
  /\ task' = "weekly"
  /\ dry_run' = dry
  /\ UNCHANGED << today, ledger, query, ai_projects, top_projects, ret,
                  split_ret, last_digest, applied,
                  ai_filter, generated, runs, db >>
  /\ IF err # "none"
     THEN /\ trend_message' = << >>
          /\ summary_message' = << >>
          /\ IF dry THEN EndWithoutSend("raised")
             ELSE BeginSend("notice", WeeklyFailureNotice(err))
     ELSE \E messages \in {format_weekly_push_messages(report, summary)} :
             /\ trend_message' = messages[1]
             /\ summary_message' = messages[2]
             /\ IF dry THEN EndWithoutSend("returned")
                ELSE BeginSend("first", messages[1])
  /\ conn' = ConnAfter(pc')

\* the transport answers the outstanding request with resp
Respond(resp) ==
  /\ pc \in {"req1", "req2"}
  /\ LET answered == [requests EXCEPT ![Len(requests)].resp = resp]
         step == IF pc = "req1" THEN AfterFirstAttempt(message, resp)
                 ELSE AfterRetry(resp)
         verdict == step.verdict
     IN IF verdict = "retry"
        THEN /\ requests' = Append(answered,
                                   [call |-> cur, attempt |-> 2,
                                    content |-> step.retry_content,
                                    resp |-> "pending"])
             /\ pc' = "req2"
             /\ UNCHANGED << ledger, ret, split_ret, outcome, last_digest >>
        ELSE /\ requests' = answered
             /\ ret' = [ret EXCEPT ![cur] = verdict]
             /\ IF cur = "first"
                THEN /\ ledger' = ledger
                     /\ last_digest' =
                          IF task = "daily" /\ verdict = "true"
                          THEN [r \in Repos |->
                                  IF \E i \in 1..Len(top_projects) : top_projects[i] = r
                                  THEN today ELSE last_digest[r]]
                          ELSE last_digest
                     /\ IF AfterFirstMessage(verdict) = "sleep"
                        THEN /\ pc' = "sleep"
                             /\ UNCHANGED << split_ret, outcome >>
                        ELSE /\ pc' = "done"
                             /\ split_ret' = "false"
                             /\ outcome' = "returned"
                ELSE IF cur = "second"
                THEN /\ split_ret' = verdict
                     /\ ledger' = IF task = "daily"
                                  THEN LedgerAfterPush(verdict, ledger, top_projects, today)
                                  ELSE ledger
                     /\ pc' = "done"
                     /\ outcome' = "returned"
                     /\ UNCHANGED last_digest
                ELSE /\ pc' = "done"
                     /\ outcome' = IF cur = "notice" THEN "raised" ELSE "returned"
                     /\ UNCHANGED << ledger, split_ret, last_digest >>
  /\ UNCHANGED << today, query, task, dry_run, ai_projects, top_projects,
                  trend_message, summary_message, cur, message, applied,
                  ai_filter, generated, runs, db >>
  /\ conn' = ConnAfter(pc')

\* time.sleep(1) is over: the split push sends its second message
Sleep ==
  /\ pc = "sleep"
  /\ BeginSend("second", summary_message)
  /\ UNCHANGED << today, ledger, query, task, dry_run, ai_projects, top_projects,
                  trend_message, summary_message, ret, split_ret, last_digest, applied,
                  ai_filter, generated, runs, db, conn >>

\* the task returns or raises to its caller (finally: db.close())
Return ==
  /\ pc = "done"
  /\ task' = "none"
  /\ dry_run' = FALSE
  /\ ai_projects' = << >>
  /\ top_projects' = << >>
  /\ trend_message' = << >>
  /\ summary_message' = << >>
  /\ pc' = "idle"
  /\ cur' = "none"
  /\ message' = << >>
  /\ requests' = << >>
  /\ ret' = NoReturns
  /\ split_ret' = "none"
  /\ outcome' = "none"
  /\ ai_filter' = NewAIFilter
  /\ generated' = << >>
  /\ conn' = "none"
  /\ UNCHANGED << today, ledger, query, last_digest, applied, runs, db >>

\* midnight passes between two runs
AdvanceDay ==
  /\ pc = "idle"
  /\ today < MaxDay
  /\ today' = today + 1
  /\ UNCHANGED << ledger, query, task, dry_run, ai_projects, top_projects,
                  trend_message, summary_message, pc, cur, message, requests,
                  ret, split_ret, outcome, last_digest, applied,
                  ai_filter, generated, runs, db, conn >>

\* One day of operation: both tasks, every input, every transport answer.
Next ==
  \/ \E d \in TrendingLists, w \in TrendingLists, f \in BOOLEAN, c \in Completions :
        StartDaily(d, w, f, c, FALSE, "none")
  \/ \E d \in TrendingLists, w \in TrendingLists :
        StartDaily(d, w, FALSE, GeneratedShort, TRUE, "none")
  \/ \E dry \in BOOLEAN, err \in Errors \ {"none"} :
        StartDaily(<< >>, << >>, FALSE, GeneratedShort, dry, err)
  \/ \E rep \in WeeklyReports, s \in SummaryTexts, dry \in BOOLEAN :
        StartWeekly(rep, s, dry, "none")
  \/ \E dry \in BOOLEAN, err \in Errors \ {"none"} :
        StartWeekly(ReportShort, SummaryShort, dry, err)
  \/ \E resp \in Responses : Respond(resp)
  \/ Sleep
  \/ Return

Spec == Init /\ [][Next]_vars

\* Daily pushes over several days: the transport accepts or rejects.
NextDays ==
  \/ \E d \in TrendingLists, w \in TrendingLists :
        StartDaily(d, w, FALSE, GeneratedShort, FALSE, "none")
  \/ \E resp \in {"errcode0", "errcode"} : Respond(resp)
  \/ Sleep
  \/ Return
  \/ AdvanceDay

SpecDays == Init /\ [][NextDays]_vars

(***************************************************************************)
(* The selection on its own: every candidate list against every pushed set *)
(***************************************************************************)

\* Longest list of AI-related candidates.
MaxCandidates == 7

SelectRepos == Repos \cup {"r3"}

CandidateLists == UNION {[1..n -> SelectRepos] : n \in 0..MaxCandidates}

\* the ledger in which exactly the identifiers of pushed were pushed on day
RowsPushedOn(pushed, day) ==
  SetToBag({[repo_name |-> r, pushed_date |-> isoformat(DateOf(day))] : r \in pushed})

InitSelect ==
  /\ today = 0
  /\ ledger \in {RowsPushedOn(pushed, 0) : pushed \in SUBSET SelectRepos}
  /\ query = << >>
  /\ task = "none"
  /\ dry_run = FALSE
  /\ ai_projects \in CandidateLists
  /\ top_projects = << >>
  /\ trend_message = << >>
  /\ summary_message = << >>
  /\ pc = "idle"
  /\ cur = "none"
  /\ message = << >>
  /\ requests = << >>
  /\ ret = NoReturns
  /\ split_ret = "none"
  /\ outcome = "none"
  /\ last_digest = [r \in Repos |-> -1]
  /\ applied = << >>
  /\ ai_filter = NewAIFilter
  /\ generated = << >>
  /\ runs = NoRuns
  /\ db = EmptyDb
  /\ conn = "none"

\* top_projects = select_daily_projects_for_push(ai_projects, db, today)
Select ==
  /\ pc = "idle"
  /\ top_projects' = select_daily_projects_for_push(ai_projects, ledger, today)
  /\ pc' = "selected"
  /\ UNCHANGED << today, ledger, query, task, dry_run, ai_projects, trend_message,
                  summary_message, cur, message, requests, ret, split_ret,
                  outcome, last_digest, applied, ai_filter, generated, runs, db, conn >>

NextSelect == Select

SpecSelect == InitSelect /\ [][NextSelect]_vars

(***************************************************************************)
(* The ledger on its own: Database.save_daily_push_records and             *)
(* Database.get_recently_pushed_repo_names called in any order             *)
(***************************************************************************)

\* Most rows the ledger holds.
MaxEntries == 2
\* Largest lookback_days asked for.
MaxLookback == 8

\* repo_names arguments
NameLists == UNION {[1..n -> Repos] : n \in 0..2}

\* db.save_daily_push_records(repo_names, pushed_date)
SaveRecords(repo_names, pushed_date) ==
  /\ pc = "idle"
  /\ query = << >>
  /\ applied = << >>
  /\ BagCardinality(save_daily_push_records(ledger, repo_names, pushed_date)) <= MaxEntries
  /\ ledger' = save_daily_push_records(ledger, repo_names, pushed_date)
  /\ applied' = << [fn |-> "save_daily_push_records", repo_names |-> repo_names,
                    pushed_date |-> pushed_date, before |-> ledger] >>
  /\ UNCHANGED << today, query, task, dry_run, ai_projects, top_projects,
                  trend_message, summary_message, pc, cur, message, requests,
                  ret, split_ret, outcome, last_digest, ai_filter, generated, runs, db, conn >>

\* db.get_recently_pushed_repo_names(lookback_days, reference_date)
Query(lookback_days, reference_date) ==
  /\ pc = "idle"
  /\ query = << >>
  /\ applied = << >>
  /\ query' = << [lookback_days |-> lookback_days,
                  reference_date |-> reference_date,
                  result |-> get_recently_pushed_repo_names(ledger, lookback_days,
                                                            reference_date)] >>
  /\ UNCHANGED << today, ledger, task, dry_run, ai_projects, top_projects,
                  trend_message, summary_message, pc, cur, message, requests,
                  ret, split_ret, outcome, last_digest, applied,
                  ai_filter, generated, runs, db, conn >>

\* the caller is done with the call it made
QueryDone ==
  /\ query # << >> \/ applied # << >>
  /\ query' = << >>
  /\ applied' = << >>
  /\ UNCHANGED << today, ledger, task, dry_run, ai_projects, top_projects,
                  trend_message, summary_message, pc, cur, message, requests,
                  ret, split_ret, outcome, last_digest, ai_filter, generated, runs, db, conn >>

NextLedger ==
  \/ \E names \in NameLists, day \in Days : SaveRecords(names, day)
  \/ \E lookback \in 0..MaxLookback, day \in Days : Query(lookback, day)
  \/ QueryDone

SpecLedger == Init /\ [][NextLedger]_vars

(***************************************************************************)
(* The byte-budget functions of WeComNotifier on their own, applied to     *)
(* arbitrary texts                                                         *)
(***************************************************************************)

\* Most runs of equal-width characters in an input text.
MaxRuns == 3
\* Largest max_bytes handed to _truncate_by_bytes directly.
MaxCeiling == 8

\* Character classes of the input texts: 1, 2, 3 and 4 bytes, and whitespace.
FitClasses == {"a", "b", "z", "e", "sp"}
\* Run lengths: a single character, and 950 characters (950 four-byte
\* characters are exactly 3800 bytes).
FitLengths == {1, 950}

FitTexts ==
  {t \in UNION {[1..k -> {[c |-> c, n |-> n] : c \in FitClasses, n \in FitLengths}] :
                  k \in 0..MaxRuns} :
     \A i \in 1..(Len(t) - 1) : t[i].c # t[i + 1].c}

InitFit ==
  /\ today = 0
  /\ ledger = EmptyBag
  /\ query = << >>
  /\ task = "none"
  /\ dry_run = FALSE
  /\ ai_projects = << >>
  /\ top_projects = << >>
  /\ trend_message = << >>
  /\ summary_message = << >>
  /\ pc = "idle"
  /\ cur = "none"
  /\ message \in FitTexts
  /\ requests = << >>
  /\ ret = NoReturns
  /\ split_ret = "none"
  /\ outcome = "none"
  /\ last_digest = [r \in Repos |-> -1]
  /\ applied = << >>
  /\ ai_filter = NewAIFilter
  /\ generated = << >>
  /\ runs = NoRuns
  /\ db = EmptyDb
  /\ conn = "none"

\* fn(message) is called and returns result; max_bytes is the ceiling of fn
Applied(fn, max_bytes, result) ==
  /\ pc = "idle"
  /\ applied = << >>
  /\ applied' = << [fn |-> fn, text |-> message, max_bytes |-> max_bytes,
                    result |-> result] >>
  /\ UNCHANGED << today, ledger, query, task, dry_run, ai_projects, top_projects,
                  trend_message, summary_message, pc, cur, message, requests,
                  ret, split_ret, outcome, last_digest, ai_filter, generated, runs, db, conn >>

ApplyTruncateByBytes(max_bytes) ==
  Applied("_truncate_by_bytes", max_bytes, _truncate_by_bytes(message, max_bytes))

ApplyFitMarkdownLimit ==
  Applied("_fit_markdown_limit", PUSH_MARKDOWN_LIMIT, _fit_markdown_limit(message))

ApplyShrinkForRetry ==
  Applied("_shrink_for_retry", RETRY_SHRINK_LIMIT, _shrink_for_retry(message))

ApplyPrepareSummaryContent ==
  Applied("_prepare_summary_content", SUMMARY_CONTENT_LIMIT,
          _prepare_summary_content(message))

NextFit ==
  \/ \E max_bytes \in 0..MaxCeiling : ApplyTruncateByBytes(max_bytes)
  \/ ApplyFitMarkdownLimit
  \/ ApplyShrinkForRetry
  \/ ApplyPrepareSummaryContent

SpecFit == InitFit /\ [][NextFit]_vars

(***************************************************************************)
(* The highlight of a digest item on its own: every reason against every   *)
(* description, and the reason of the filter's keyword fallback            *)
(***************************************************************************)

\* Most marker occurrences in a reason, most keywords in a description.
MaxMarkers == 2
MaxKeywords == 2

ReasonTexts ==
  {<< >>, Cat(Txt("sp", 2), Txt("nl", 1)), Cat(Txt("sp", 1), Txt("a", 20)),
   Cat(Txt("e", 150), Txt("nl", 1)), Cat(Txt("z", 30), Txt("a", 41))}

\* a blank text holds no phrase
Reasons ==
  {[text |-> text, found |-> found] :
     text \in ReasonTexts,
     found \in {f \in SUBSET {[marker |-> m, lower |-> l] :
                                m \in fallback_markers, l \in BOOLEAN} :
                  Cardinality(f) <= MaxMarkers}}
    \ {reason \in [text : ReasonTexts,
                   found : SUBSET {[marker |-> m, lower |-> l] :
                                     m \in fallback_markers, l \in BOOLEAN}] :
         Strip(reason.text) = << >> /\ reason.found # {}}

Descriptions ==
  {[text |-> Txt("a", 40), kw |-> kw] :
     kw \in {k \in SUBSET (AgentKeywords \cup LlmKeywords \cup VisionKeywords) :
               Cardinality(k) <= MaxKeywords}}

\* the answers of the LLM to the prompt of is_ai_related
FilterAnswers ==
  {[raises |-> TRUE, is_ai_related |-> FALSE, reason |-> ReasonOf("r2")]}
    \cup {[raises |-> FALSE, is_ai_related |-> b, reason |-> ReasonOf(r)] :
            b \in BOOLEAN, r \in Repos}

\* notifier._normalize_ai_highlight(reason, description)
ApplyNormalizeAiHighlight(reason, description) ==
  /\ pc = "idle"
  /\ applied = << >>
  /\ applied' = << [fn |-> "_normalize_ai_highlight", reason |-> reason,
                    description |-> description,
                    result |-> _normalize_ai_highlight(reason, description)] >>
  /\ UNCHANGED << today, ledger, query, task, dry_run, ai_projects, top_projects,
                  trend_message, summary_message, pc, cur, message, requests,
                  ret, split_ret, outcome, last_digest, ai_filter, generated, runs, db, conn >>

\* ai_filter.is_ai_related(project) followed, for a project found AI-related,
\* by the highlight the digest shows for the returned reason
ApplyIsAiRelated(r, answer) ==
  /\ pc = "idle"
  /\ applied = << >>
  /\ LET result == is_ai_related(r, answer)
     IN /\ applied' = << [fn |-> "is_ai_related", project |-> r, answer |-> answer,
                          result |-> result,
                          highlight |->
                            IF result.is_ai_related
                            THEN << _normalize_ai_highlight(result.reason,
                                                            ProjectOf(r).description) >>
                            ELSE << >>] >>
        /\ ai_filter' = [ai_filter EXCEPT !.last_filter_had_llm_failure =
                                            @ \/ result.failed]
  /\ UNCHANGED << today, ledger, query, task, dry_run, ai_projects, top_projects,
                  trend_message, summary_message, pc, cur, message, requests,
                  ret, split_ret, outcome, last_digest, generated, runs, db, conn >>

NextHighlight ==
  \/ \E reason \in Reasons, description \in Descriptions :
        ApplyNormalizeAiHighlight(reason, description)
  \/ \E r \in Repos, answer \in FilterAnswers : ApplyIsAiRelated(r, answer)
  \/ QueryDone

SpecHighlight == Init /\ [][NextHighlight]_vars

(***************************************************************************)
(* The summary functions of AIFilter on their own: every batch against     *)
(* every completion                                                        *)
(***************************************************************************)

\* Longest batch handed to generate_daily_summary.
MaxBatch == 4

\* r3: a repository whose name holds a blocklist marker (FoundInName)
SummaryRepos == {"r1", "r2", "r3"}

Batches == UNION {[1..n -> SummaryRepos] : n \in 0..MaxBatch}

\* a text that holds one marker, in lower case or not
LeakOf(marker, lower) ==
  Completion(Join(<< Txt("z", 5), Txt("sp", 1), Txt("a", 12), Txt("nl", 1) >>),
             {[marker |-> marker, lower |-> lower]})

\* content == ""
GeneratedEmpty == Completion(<< >>, {})

AllCompletions ==
  Completions \cup {GeneratedEmpty}
    \cup {LeakOf(marker, TRUE) : marker \in SUMMARY_BLOCKLIST}
    \cup {LeakOf(marker, FALSE) :
            marker \in {"using-superpowers", "skill.md", "/users/", "/private/tmp"}}

InitSummary ==
  /\ today = 0
  /\ ledger = EmptyBag
  /\ query = << >>
  /\ task = "none"
  /\ dry_run = FALSE
  /\ ai_projects = << >>
  /\ top_projects \in Batches
  /\ trend_message = << >>
  /\ summary_message = << >>
  /\ pc = "idle"
  /\ cur = "none"
  /\ message = << >>
  /\ requests = << >>
  /\ ret = NoReturns
  /\ split_ret = "none"
  /\ outcome = "none"
  /\ last_digest = [r \in Repos |-> -1]
  /\ applied = << >>
  /\ ai_filter \in [last_filter_had_llm_failure : {FALSE},
                    last_summary_had_llm_failure : BOOLEAN]
  /\ generated \in {<< c >> : c \in AllCompletions}
  /\ runs = NoRuns
  /\ db = EmptyDb
  /\ conn = "none"

\* ai_filter.generate_daily_summary(top_projects), the LLM answering with
\* generated[1]
ApplyGenerateDailySummary ==
  /\ pc = "idle"
  /\ applied = << >>
  /\ LET generation == generate_daily_summary(top_projects, generated[1])
     IN /\ applied' = << [fn |-> "generate_daily_summary",
                          projects |-> top_projects,
                          completion |-> generated[1],
                          result |-> generation] >>
        /\ ai_filter' = [ai_filter EXCEPT !.last_summary_had_llm_failure =
                                            generation.last_summary_had_llm_failure]
  /\ UNCHANGED << today, ledger, query, task, dry_run, ai_projects, top_projects,
                  trend_message, summary_message, pc, cur, message, requests,
                  ret, split_ret, outcome, last_digest, generated, runs, db, conn >>

\* ai_filter._build_fallback_summary(top_projects)
ApplyBuildFallbackSummary ==
  /\ pc = "idle"
  /\ applied = << >>
  /\ applied' = << [fn |-> "_build_fallback_summary",
                    projects |-> top_projects,
                    result |-> _build_fallback_summary(top_projects)] >>
  /\ UNCHANGED << today, ledger, query, task, dry_run, ai_projects, top_projects,
                  trend_message, summary_message, pc, cur, message, requests,
                  ret, split_ret, outcome, last_digest, ai_filter, generated, runs, db, conn >>

NextSummary ==
  \/ ApplyGenerateDailySummary
  \/ ApplyBuildFallbackSummary

SpecSummary == InitSummary /\ [][NextSummary]_vars

(***************************************************************************)
(* One AIFilter used for a sequence of batch_filter and                    *)
(* generate_daily_summary calls                                            *)
(***************************************************************************)

\* Longest list handed to batch_filter or generate_daily_summary in a
\* sequence of calls.
MaxFiltered == 2

FilteredLists == UNION {[1..n -> Repos] : n \in 0..MaxFiltered}

\* ai_filter.batch_filter(projects), the LLM answering answers[i] for
\* projects[i]
CallBatchFilter(projects, answers) ==
  /\ pc = "idle"
  /\ applied = << >>
  /\ LET filtered == batch_filter(ai_filter, projects, answers)
     IN /\ ai_filter' = filtered.self
        /\ applied' = << [fn |-> "batch_filter", projects |-> projects,
                          answers |-> answers, before |-> ai_filter,
                          result |-> filtered.results] >>
  /\ UNCHANGED << today, ledger, query, task, dry_run, ai_projects, top_projects,
                  trend_message, summary_message, pc, cur, message, requests,
                  ret, split_ret, outcome, last_digest, generated, runs, db, conn >>

\* ai_filter.generate_daily_summary(projects), the LLM answering completion
CallGenerateDailySummary(projects, completion) ==
  /\ pc = "idle"
  /\ applied = << >>
  /\ LET generation == generate_daily_summary(projects, completion)
     IN /\ ai_filter' = [ai_filter EXCEPT !.last_summary_had_llm_failure =
                                            generation.last_summary_had_llm_failure]
        /\ applied' = << [fn |-> "generate_daily_summary", projects |-> projects,
                          completion |-> completion, before |-> ai_filter,
                          result |-> generation] >>
  /\ UNCHANGED << today, ledger, query, task, dry_run, ai_projects, top_projects,
                  trend_message, summary_message, pc, cur, message, requests,
                  ret, split_ret, outcome, last_digest, generated, runs, db, conn >>

NextFlags ==
  \/ \E projects \in FilteredLists :
       \E answers \in [1..Len(projects) -> FilterAnswers] :
          CallBatchFilter(projects, answers)
  \/ \E projects \in FilteredLists, completion \in Completions :
        CallGenerateDailySummary(projects, completion)
  \/ QueryDone

SpecFlags == Init /\ [][NextFlags]_vars

(***************************************************************************)
(* Two run_daily_task executions on one database file                      *)
(***************************************************************************)

\* sqlite3: what an INSERT of connection p does in database d.  A second
\* connection cannot write while another holds the write lock; a row that
\* breaks a UNIQUE constraint raises IntegrityError.
InsertOutcome(p, d, exists) ==
  IF d.writer \notin {0, p} THEN "locked"
  ELSE IF exists THEN "IntegrityError"
  ELSE "inserted"

\* conn.commit(), a rollback or conn.close() of connection p: its write
\* lock, if it has one, is given up
Released(p, d) == [d EXCEPT !.writer = IF @ = p THEN 0 ELSE @]

\* run p starts: the filter returned ai, the ledger is read
RunBegin(p, ai) ==
  /\ runs[p].pc = "idle"
  /\ LET top == select_daily_projects_for_push(ai, ledger, today)
     IN runs' = [runs EXCEPT ![p] =
                   [@ EXCEPT !.ai = ai, !.top = top, !.i = 1,
                             !.pc = IF ai = << >> \/ top = << >>
                                    THEN "closed" ELSE "save_project"]]
  /\ UNCHANGED << today, ledger, query, task, dry_run, ai_projects, top_projects,
                  trend_message, summary_message, pc, cur, message, requests,
                  ret, split_ret, outcome, last_digest, applied, ai_filter,
                  generated, db, conn >>

\* db.save_project for the i-th AI project: INSERT and commit, or
\* IntegrityError, caught, after which the SELECT runs in the transaction
\* that the failed INSERT has opened
RunSaveProject(p) ==
  /\ runs[p].pc = "save_project"
  /\ LET repo == runs[p].ai[runs[p].i]
         how == InsertOutcome(p, db, repo \in db.projects)
     IN /\ how # "locked"
        /\ IF how = "inserted"
           THEN /\ db' = Released(p, [db EXCEPT !.projects = @ \cup {repo}])
                /\ runs' = [runs EXCEPT ![p] =
                              [@ EXCEPT !.in_transaction = FALSE,
                                        !.pc = "save_trend_record"]]
           ELSE /\ db' = [db EXCEPT !.writer = p]
                /\ runs' = [runs EXCEPT ![p] =
                              [@ EXCEPT !.in_transaction = TRUE,
                                        !.pc = "save_trend_record"]]
  /\ UNCHANGED << today, ledger, query, task, dry_run, ai_projects, top_projects,
                  trend_message, summary_message, pc, cur, message, requests,
                  ret, split_ret, outcome, last_digest, applied, ai_filter,
                  generated, conn >>

\* db.save_trend_record for the i-th AI project, then the next iteration of
\* the loop or the summary and the push
RunSaveTrend(p) ==
  /\ runs[p].pc = "save_trend_record"
  /\ LET key == [project |-> runs[p].ai[runs[p].i],
                 date |-> isoformat(DateOf(today)), trend_type |-> "daily"]
         how == InsertOutcome(p, db, key \in db.trend_records)
         next_pc == IF runs[p].i = Len(runs[p].ai) THEN "push" ELSE "save_project"
     IN /\ how # "locked"
        /\ IF how = "inserted"
           THEN /\ db' = Released(p, [db EXCEPT !.trend_records = @ \cup {key}])
                /\ runs' = [runs EXCEPT ![p] =
                              [@ EXCEPT !.in_transaction = FALSE,
                                        !.i = @ + 1, !.pc = next_pc]]
           ELSE /\ db' = [db EXCEPT !.writer = p]
                /\ runs' = [runs EXCEPT ![p] =
                              [@ EXCEPT !.in_transaction = TRUE,
                                        !.i = @ + 1, !.pc = next_pc]]
  /\ UNCHANGED << today, ledger, query, task, dry_run, ai_projects, top_projects,
                  trend_message, summary_message, pc, cur, message, requests,
                  ret, split_ret, outcome, last_digest, applied, ai_filter,
                  generated, conn >>

\* generate_daily_summary, the history file and send_daily_report_split,
\* which returns success; on False the run ends and db.close() drops the
\* open transaction
RunPush(p, success) ==
  /\ runs[p].pc = "push"
  /\ IF success
     THEN /\ runs' = [runs EXCEPT ![p] = [@ EXCEPT !.pc = "save_daily_push_records"]]
          /\ UNCHANGED db
     ELSE /\ runs' = [runs EXCEPT ![p] =
                        [@ EXCEPT !.in_transaction = FALSE, !.pc = "closed"]]
          /\ db' = Released(p, db)
  /\ UNCHANGED << today, ledger, query, task, dry_run, ai_projects, top_projects,
                  trend_message, summary_message, pc, cur, message, requests,
                  ret, split_ret, outcome, last_digest, applied, ai_filter,
                  generated, conn >>

\* db.save_daily_push_records(pushed_repo_names, today): INSERT OR IGNORE
\* and commit; then finally: db.close()
RunWriteLedger(p) ==
  /\ runs[p].pc = "save_daily_push_records"
  /\ InsertOutcome(p, db, FALSE) # "locked"
  /\ ledger' = save_daily_push_records(ledger, runs[p].top, today)
  /\ db' = Released(p, db)
  /\ runs' = [runs EXCEPT ![p] =
                [@ EXCEPT !.in_transaction = FALSE, !.wrote = TRUE,
                          !.pc = "closed"]]
  /\ UNCHANGED << today, query, task, dry_run, ai_projects, top_projects,
                  trend_message, summary_message, pc, cur, message, requests,
                  ret, split_ret, outcome, last_digest, applied, ai_filter,
                  generated, conn >>

\* a write of run p finds the database locked by the other connection until
\* sqlite3's timeout is over: OperationalError, which no save_* method
\* catches; the handler of run_daily_task sends its notice and re-raises,
\* finally: db.close()
RunLocked(p) ==
  /\ runs[p].pc \in {"save_project", "save_trend_record", "save_daily_push_records"}
  /\ InsertOutcome(p, db, FALSE) = "locked"
  /\ runs' = [runs EXCEPT ![p] =
                [@ EXCEPT !.raised_in = runs[p].pc, !.pc = "closed"]]
  /\ UNCHANGED << today, ledger, query, task, dry_run, ai_projects, top_projects,
                  trend_message, summary_message, pc, cur, message, requests,
                  ret, split_ret, outcome, last_digest, applied, ai_filter,
                  generated, db, conn >>

NextConcurrent ==
  \/ \E p \in Runs, ai \in FilteredLists : RunBegin(p, ai)
  \/ \E p \in Runs : RunSaveProject(p)
  \/ \E p \in Runs : RunSaveTrend(p)
  \/ \E p \in Runs, success \in BOOLEAN : RunPush(p, success)
  \/ \E p \in Runs : RunWriteLedger(p)
  \/ \E p \in Runs : RunLocked(p)

SpecConcurrent == Init /\ [][NextConcurrent]_vars

(***************************************************************************)
(* Properties                                                              *)
(***************************************************************************)

\* C1: in a split push (daily or weekly) a request for the second message is
\* issued only after the first message's send_markdown returned True; when
\* the first send returned False no request for the second message exists;
\* the split send returns True only if both sends returned True.
C1_SecondOnlyAfterFirst ==
  /\ \A i \in 1..Len(requests) :
       requests[i].call = "second" =>
         /\ ret.first = "true"
         /\ \E j \in 1..(i - 1) :
              requests[j].call = "first" /\ requests[j].resp = "errcode0"
  /\ ret.first = "false" =>
       \A i \in 1..Len(requests) : requests[i].call # "second"
  /\ split_ret = "true" => (ret.first = "true" /\ ret.second = "true")

\* A split push that delivered both messages, each after a shortened retry.
C1_Witness ==
  /\ split_ret = "true"
  /\ Len(requests) = 4
  /\ requests[3].call = "second"

\* C2: run_daily_task changes the push ledger in exactly one kind of step:
\* the one in which send_daily_report_split returns True (both messages
\* delivered); it then adds exactly the identifiers of the selected batch
\* under today's date.  Every other step (first or second message failed,
\* early return, dry run, exception, weekly task) leaves the ledger unchanged.
C2_LedgerOnlyOnBothSent ==
  [][ledger' =
       IF /\ task = "daily" /\ ~dry_run
          /\ cur = "second" /\ pc # "done" /\ pc' = "done"
          /\ ret.first = "true" /\ ret'.second = "true" /\ split_ret' = "true"
       THEN SetToBag(BagToSet(ledger)
                       \cup {[repo_name |-> top_projects[i],
                               pushed_date |-> isoformat(DateOf(today))] :
                              i \in 1..Len(top_projects)})
       ELSE ledger]_vars

\* A daily push that was delivered in full and recorded.
C2_Witness ==
  /\ task = "daily"
  /\ pc = "done"
  /\ split_ret = "true"
  /\ top_projects # << >>
  /\ \A i \in 1..Len(top_projects) :
       [repo_name |-> top_projects[i], pushed_date |-> isoformat(DateOf(today))]
         \in BagToSet(ledger)

\* C3 as stated: once a digest listing an item was accepted by the channel on
\* day D, no digest listing that item is accepted on a day in [D, D+6].
C3_NoReannounceAfterDigest ==
  [][(task = "daily" /\ cur = "first" /\ ret.first = "none" /\ ret'.first = "true")
       => \A i \in 1..Len(top_projects) :
            \/ last_digest[top_projects[i]] = -1
            \/ today > last_digest[top_projects[i]] + 6]_vars

\* C3 (amended): once a push listing an item was delivered in full and
\* recorded in the ledger on day D, no digest listing that item is accepted
\* by the channel on a day in [D, D+6], a re-run on D included.
C3_NoReannounceAfterRecord ==
  [][(task = "daily" /\ cur = "first" /\ ret.first = "none" /\ ret'.first = "true")
       => \A i \in 1..Len(top_projects) : \A d \in Days :
            (d <= today /\ today <= d + 6) =>
              [repo_name |-> top_projects[i], pushed_date |-> isoformat(DateOf(d))]
                \notin BagToSet(ledger)]_vars

\* A digest was accepted in a cycle one of whose candidates had been
\* recorded six days earlier.
C3_Witness ==
  /\ task = "daily"
  /\ pc = "sleep"
  /\ today >= 6
  /\ \E i \in 1..Len(ai_projects) :
       [repo_name |-> ai_projects[i], pushed_date |-> isoformat(DateOf(today - 6))]
         \in BagToSet(ledger)

\* C4: select_daily_projects_for_push returns the first min(5, number of
\* eligible) candidates whose identifier is not in the pushed set, in their
\* original order: the j-th selected item is the j-th eligible candidate.
C4_SelectFirstEligible ==
  pc = "selected" =>
    LET pushed == {row.repo_name : row \in BagToSet(ledger)}
        eligible == {i \in 1..Len(ai_projects) : ai_projects[i] \notin pushed}
        k == IF Cardinality(eligible) < 5 THEN Cardinality(eligible) ELSE 5
    IN /\ Len(top_projects) = k
       /\ \A j \in 1..k :
            top_projects[j] =
              ai_projects[CHOOSE i \in eligible :
                            Cardinality({h \in eligible : h <= i}) = j]

\* Seven candidates, more than five of them eligible, a pushed one ranked
\* before a selected one.
C4_Witness ==
  /\ pc = "selected"
  /\ Len(ai_projects) = 7
  /\ Len(top_projects) = 5
  /\ Cardinality({i \in 1..7 : \A row \in BagToSet(ledger) : row.repo_name # ai_projects[i]}) > 5
  /\ \E row \in BagToSet(ledger) : row.repo_name = ai_projects[1]

C6_AtMostOneRetry ==
  /\ \A c \in {"first", "second", "warn", "notice"} :
       Cardinality({i \in 1..Len(requests) : requests[i].call = c}) <= 2
  /\ ( /\ Len(requests) >= 2
       /\ requests[2].call = "first"
       /\ requests[2].resp \notin {"errcode0", "pending"} )
       => /\ Len(requests) = 2
          /\ ret.first = "false"
          /\ ret.second = "none"
          /\ split_ret = "false"

\* The first message was rejected and its shortened retry was rejected too.
C6_Witness ==
  /\ Len(requests) = 2
  /\ requests[1].resp = "errcode"
  /\ requests[2].call = "first"
  /\ requests[2].resp = "errcode"
  /\ split_ret = "false"

\* C7: when the first request of a send_markdown call fails at the transport
\* level, the call returns False after that one request, whatever the size
\* of the message.
C7_TransportFailureNoRetry ==
  \A i \in 1..Len(requests) :
    (requests[i].attempt = 1 /\ requests[i].resp = "exception") =>
      /\ i = Len(requests)
      /\ ret[requests[i].call] = "false"

\* A transport failure on a message that is large enough to be shortened.
C7_Witness ==
  \E i \in 1..Len(requests) :
    /\ requests[i].attempt = 1
    /\ requests[i].resp = "exception"
    /\ ByteLen(requests[i].content) > 2500

\* C8: when the first request is answered with a non-success application
\* code and the fitted message is shorter than 2500 bytes, send_markdown
\* issues no further request and returns False.
C8_NoRetryBelowCeiling ==
  \A i \in 1..Len(requests) :
    ( /\ requests[i].attempt = 1
      /\ requests[i].resp \in {"errcode", "no_errcode"}
      /\ ByteLen(requests[i].content) < 2500 ) =>
      /\ i = Len(requests)
      /\ ret[requests[i].call] = "false"

\* A short message was rejected by the application.
C8_Witness ==
  \E i \in 1..Len(requests) :
    /\ requests[i].attempt = 1
    /\ requests[i].resp = "errcode"
    /\ ByteLen(requests[i].content) < 2500
    /\ ret[requests[i].call] = "false"

\* C9: when the first request is rejected by application code and the message
\* exceeds 2500 bytes, the next request is the retry of the same call; its
\* payload is a character prefix of the first payload followed by the
\* "shortened and resent" suffix, is at most 2500 bytes and shorter than the
\* first payload; send_markdown returns what the retry achieved.
C9_RetryPayload ==
  \A i \in 1..Len(requests) :
    ( /\ requests[i].attempt = 1
      /\ requests[i].resp \in {"errcode", "no_errcode"}
      /\ ByteLen(requests[i].content) > 2500 ) =>
      /\ i < Len(requests)
      /\ requests[i + 1].call = requests[i].call
      /\ requests[i + 1].attempt = 2
      /\ LET first == requests[i].content
             retry == requests[i + 1].content
             kept == CharLen(retry) - CharLen(RetrySuffix)
         IN /\ kept >= 0
            /\ kept < CharLen(first)
            /\ retry = Cat(Slice(first, kept), RetrySuffix)
            /\ ByteLen(retry) <= 2500
            /\ ByteLen(retry) < ByteLen(first)
      /\ requests[i + 1].resp # "pending" =>
           ret[requests[i].call] =
             IF requests[i + 1].resp = "errcode0" THEN "true" ELSE "false"

\* A rejected large message whose shortened retry was accepted.
C9_Witness ==
  \E i \in 1..Len(requests) :
    /\ requests[i].attempt = 2
    /\ requests[i].resp = "errcode0"
    /\ ret[requests[i].call] = "true"

\* C10: both messages returned by format_daily_push_messages and
\* format_weekly_push_messages, and every payload handed to the transport
\* (first attempt, retry, warning, failure notice), are at most 3800 bytes.
C10_PushBudget ==
  /\ ByteLen(trend_message) <= 3800
  /\ ByteLen(summary_message) <= 3800
  /\ \A i \in 1..Len(requests) : ByteLen(requests[i].content) <= 3800

\* A daily digest that had to be cut to the budget was handed to the
\* transport.
C10_Witness ==
  /\ task = "daily"
  /\ \E i \in 1..Len(requests) :
       /\ requests[i].call = "first"
       /\ requests[i].attempt = 1
       /\ requests[i].content[Len(requests[i].content)].c = "F"
       /\ ByteLen(requests[i].content) > 3700

\* C11: _truncate_by_bytes(text, b) has at most b UTF-8 bytes for every text
\* and every ceiling b >= 0, and the fitters built on it return at most their
\* ceiling, suffix included: _fit_markdown_limit 3800, _prepare_summary_content
\* 2600, _shrink_for_retry 2500.
C11_WithinCeiling ==
  \A i \in 1..Len(applied) :
    LET call == applied[i]
    IN /\ call.fn = "_truncate_by_bytes" =>
            ByteLen(call.result) <= call.max_bytes
       /\ call.fn = "_fit_markdown_limit" => ByteLen(call.result) <= 3800
       /\ call.fn = "_prepare_summary_content" => ByteLen(call.result) <= 2600
       /\ call.fn = "_shrink_for_retry" => ByteLen(call.result) <= 2500

\* A text cut where the next character no longer fits: the result is not
\* empty and stays below the ceiling.
C11_Witness ==
  /\ applied # << >>
  /\ applied[1].fn = "_truncate_by_bytes"
  /\ ByteLen(applied[1].text) > applied[1].max_bytes
  /\ applied[1].result # << >>
  /\ ByteLen(applied[1].result) < applied[1].max_bytes

\* C12: a text of at most the ceiling is returned unchanged, without suffix,
\* by _fit_markdown_limit (3800), _shrink_for_retry (2500) and
\* _truncate_by_bytes (any max_bytes >= 1); applying one of them to its own
\* result returns that result.
C12_IdentityBelowCeiling ==
  \A i \in 1..Len(applied) :
    LET call == applied[i]
    IN /\ call.fn = "_truncate_by_bytes" =>
            /\ (call.max_bytes >= 1 /\ ByteLen(call.text) <= call.max_bytes)
                  => call.result = call.text
            /\ _truncate_by_bytes(call.result, call.max_bytes) = call.result
       /\ call.fn = "_fit_markdown_limit" =>
            /\ ByteLen(call.text) <= 3800 => call.result = call.text
            /\ _fit_markdown_limit(call.result) = call.result
       /\ call.fn = "_shrink_for_retry" =>
            /\ ByteLen(call.text) <= 2500 => call.result = call.text
            /\ _shrink_for_retry(call.result) = call.result

\* A text of exactly 3800 bytes went through _fit_markdown_limit.
C12_Witness ==
  /\ applied # << >>
  /\ applied[1].fn = "_fit_markdown_limit"
  /\ ByteLen(applied[1].text) = 3800
  /\ applied[1].result = applied[1].text

\* C13: the batch that run_daily_task hands to send_daily_report_split (and
\* records in the ledger) holds no two items with the same repo_name,
\* whatever the daily and weekly trending lists are.
C13_BatchDistinct ==
  (task = "daily" /\ cur \in {"first", "second"}) =>
    \A i, j \in 1..Len(top_projects) :
      top_projects[i] = top_projects[j] => i = j

\* C14: save_daily_push_records called with identifiers that are already
\* recorded for that date leaves the ledger as it was, and so does a call
\* with an empty list; calling it again with the same arguments leaves the
\* ledger as after the first call; the ledger never holds two entries with
\* the same (repo_name, pushed_date).
C14_SaveIdempotent ==
  /\ \A row \in BagToSet(ledger) : CopiesIn(row, ledger) = 1
  /\ \A i \in 1..Len(applied) :
       applied[i].fn = "save_daily_push_records" =>
         LET call == applied[i]
             asked == {[repo_name |-> call.repo_names[k],
                        pushed_date |-> isoformat(DateOf(call.pushed_date))] :
                       k \in 1..Len(call.repo_names)}
         IN /\ asked \subseteq BagToSet(call.before) => ledger = call.before
            /\ call.repo_names = << >> => ledger = call.before
            /\ save_daily_push_records(ledger, call.repo_names, call.pushed_date)
                 = ledger

\* A call that names one identifier twice, for a date on which it is
\* already recorded.
C14_Witness ==
  /\ applied # << >>
  /\ applied[1].fn = "save_daily_push_records"
  /\ Len(applied[1].repo_names) = 2
  /\ applied[1].repo_names[1] = applied[1].repo_names[2]
  /\ BagIn([repo_name |-> applied[1].repo_names[1],
            pushed_date |-> isoformat(DateOf(applied[1].pushed_date))],
           applied[1].before)
  /\ ledger = applied[1].before

\* C15: the ledger is append-only: no step of the program removes or changes
\* an entry (every (repo_name, pushed_date) recorded before a step is
\* recorded after it), and get_recently_pushed_repo_names leaves the ledger
\* as it is.
C15_AppendOnly ==
  [][/\ \A row \in BagToSet(ledger) : CopiesIn(row, ledger') >= CopiesIn(row, ledger)
     /\ (query = << >> /\ query' # << >>) => ledger' = ledger]_vars

\* Two entries were recorded by two separate calls, then the ledger was
\* queried.
C15_Witness ==
  /\ query # << >>
  /\ BagCardinality(ledger) = 2
  /\ \E r1, r2 \in BagToSet(ledger) : r1.pushed_date # r2.pushed_date

C17_NoPushWithoutAIProjects ==
  (task = "daily" /\ ~dry_run /\ ai_projects = << >> /\ cur # "notice"
     /\ outcome # "raised")
    => /\ requests = << >>
       /\ cur = "none"
       /\ pc = "done" => outcome = "returned"


(***************************************************************************)
(* C18.  The health flags gate the push: a run_daily_task that is not a    *)
(* dry run and whose AIFilter has last_filter_had_llm_failure set after    *)
(* batch_filter, or last_summary_had_llm_failure set after                 *)
(* generate_daily_summary, calls neither send_markdown nor                 *)
(* send_daily_report_split, so it issues no request.                       *)
(***************************************************************************)
C18_FlagsGatePush ==
  (/\ task = "daily"
   /\ ~dry_run
   /\ \/ ai_filter.last_filter_had_llm_failure
      \/ ai_filter.last_summary_had_llm_failure)
    => /\ requests = << >>
       /\ cur = "none"

\* the completion is one that generate_daily_summary has to replace: the
\* request raised, or the text is blank or holds a blocklist marker in any
\* letter case
TextQualityProblem(completion) ==
  \/ completion.raises
  \/ Strip(completion.content.text) = << >>
  \/ \E o \in completion.content.found : o.marker \in SUMMARY_BLOCKLIST

C20_FallbackClean ==
  \A i \in 1..Len(applied) :
    LET call == applied[i]
    IN (/\ call.fn = "generate_daily_summary"
        /\ call.projects # << >>
        /\ ~call.completion.raises
        /\ TextQualityProblem(call.completion))
         => LET summary == call.result.summary
            IN /\ ~call.result.raised
               /\ call.result.last_summary_had_llm_failure
               /\ summary.text # Strip(call.completion.content.text)
               /\ {"trend", "value"} \subseteq summary.headings
               /\ Len(summary.names) <= 3
               /\ summary.names = SubSeq(call.projects, 1, Len(summary.names))
               /\ \A marker \in SUMMARY_BLOCKLIST :
                    ~Contains(Lower(summary.found), marker)


(***************************************************************************)
(* C21.  The summary text that ends up in the pushed summary message       *)
(* always contains the two section markers (summary heading and            *)
(* value-analysis heading), whatever the generator returned: here, for the *)
(* daily pipeline, whenever the second message of the split push has been  *)
(* requested.                                                              *)
(***************************************************************************)
C21_SectionMarkersPresent ==
  (/\ task = "daily"
   /\ generated # << >>
   /\ \E i \in 1..Len(requests) : requests[i].call = "second")
    => {"trend", "value"} \subseteq
         generate_daily_summary(top_projects, generated[1]).summary.headings


\* the topic area of a description: the first group, in the order agent,
\* llm, vision, of which it contains a keyword
FirstTopic(description) ==
  IF description.kw \cap AgentKeywords # {} THEN "agent"
  ELSE IF description.kw \cap LlmKeywords # {} THEN "llm"
  ELSE IF description.kw \cap VisionKeywords # {} THEN "vision"
  ELSE "generic"

(***************************************************************************)
(* C22.  For every reason and description: when the reason is blank or     *)
(* contains a fallback marker in any letter case, _normalize_ai_highlight  *)
(* returns the canned sentence of the first matching topic group of the    *)
(* description (agent, then llm, then vision, else the generic one), which *)
(* is not the reason's text; otherwise it returns the reason trimmed.      *)
(***************************************************************************)
C22_HighlightNormalized ==
  \A i \in 1..Len(applied) :
    LET call == applied[i]
    IN call.fn = "_normalize_ai_highlight" =>
         IF \/ Strip(call.reason.text) = << >>
            \/ \E o \in call.reason.found : o.marker \in fallback_markers
         THEN /\ call.result = CannedHighlight(AreaText(FirstTopic(call.description)))
              /\ call.result # Strip(call.reason.text)
         ELSE call.result = Strip(call.reason.text)

\* A reason that writes a marker with capitals, over a description that has
\* keywords of two groups, is replaced by the sentence of the earlier group.
C22_Witness ==
  /\ applied # << >>
  /\ applied[1].fn = "_normalize_ai_highlight"
  /\ applied[1].reason.found = {[marker |-> "llm unavailable", lower |-> FALSE]}
  /\ applied[1].description.kw = {"video", "chat"}
  /\ applied[1].result = CannedHighlight(AreaText("llm"))

(***************************************************************************)
(* C23.  The reason that is_ai_related produces on its keyword-fallback    *)
(* path (the LLM request failed) is recognised as a fallback placeholder   *)
(* by the digest composer: the highlight shown for it is the topic         *)
(* sentence, never the reason itself.                                      *)
(***************************************************************************)
C23_FallbackReasonRewritten ==
  \A i \in 1..Len(applied) :
    LET call == applied[i]
    IN (call.fn = "is_ai_related" /\ call.result.failed /\ call.highlight # << >>)
         => /\ call.highlight[1] # Strip(call.result.reason.text)
            /\ call.highlight[1] =
                 CannedHighlight(AreaText(FirstTopic(ProjectOf(call.project).description)))


(***************************************************************************)
(* C24.  A dry run sends no notification and does not write the push       *)
(* ledger: while a task with dry_run = True is running, on every path of   *)
(* run_daily_task and run_weekly_task, no request has been issued, no      *)
(* send_markdown call is in progress or has returned, and every step       *)
(* leaves the ledger as it was.                                            *)
(***************************************************************************)
C24_DryRunSilent ==
  [][dry_run' => /\ requests' = << >>
                 /\ cur' = "none"
                 /\ ret' = NoReturns
                 /\ split_ret' = "none"
                 /\ ledger' = ledger]_vars

\* A dry daily run over a non-empty selected batch has completed, on a day
\* on which an earlier push is already recorded.
C24_Witness ==
  /\ task = "daily"
  /\ dry_run
  /\ pc = "done"
  /\ top_projects # << >>
  /\ ledger # EmptyBag
  /\ outcome = "returned"


\* the requests of the send_markdown call `call` of the running task
RequestsOf(call) == SelectSeq(requests, LAMBDA q : q.call = call)

(***************************************************************************)
(* C25.  send_markdown makes a retry if and only if its first request was  *)
(* answered with an errcode other than 0 (a missing errcode included) and  *)
(* the fitted message exceeds 2500 bytes; it returns True if and only if   *)
(* the first answer carries errcode 0, or a retry was made and the retry's *)
(* answer carries errcode 0; otherwise (transport error, any other code)   *)
(* it returns False.                                                       *)
(***************************************************************************)
C25_SendMarkdownResult ==
  \A call \in {"first", "second", "warn", "notice"} :
    LET posted == RequestsOf(call)
    IN /\ Len(posted) <= 2
       /\ ret[call] # "none" => posted # << >>
       /\ (posted # << >> /\ posted[1].resp # "pending") =>
            /\ Len(posted) = 2 <=>
                 /\ posted[1].resp \in {"errcode", "no_errcode"}
                 /\ ByteLen(posted[1].content) > 2500
            /\ (Len(posted) = 1 \/ posted[Len(posted)].resp # "pending") =>
                 /\ ret[call] \in {"true", "false"}
                 /\ ret[call] = "true" <=>
                      \/ posted[1].resp = "errcode0"
                      \/ Len(posted) = 2 /\ posted[2].resp = "errcode0"

\* A message above 2500 bytes answered without errcode, then accepted on the
\* retry: send_markdown returned True.
C25_Witness ==
  LET posted == RequestsOf("first")
  IN /\ Len(posted) = 2
     /\ posted[1].resp = "no_errcode"
     /\ posted[2].resp = "errcode0"
     /\ ret.first = "true"


\* the second message of the split push has been requested
SecondRequested == RequestsOf("second") # << >>

(***************************************************************************)
(* C26.  In a split push the pause lies strictly between the two sends:    *)
(* the pause (time.sleep(1)) is entered only in the step in which the      *)
(* first message's send_markdown returns True, the first request of the    *)
(* second message is issued only by the step that ends the pause, and      *)
(* when the first send returned False the pause is never taken and the     *)
(* second message never requested.                                         *)
(***************************************************************************)
C26_PauseBetweenSends ==
  [][/\ (pc' = "sleep" /\ pc # "sleep") =>
          /\ cur = "first"
          /\ pc \in {"req1", "req2"}
          /\ ret.first = "none"
          /\ ret'.first = "true"
     /\ pc' = "sleep" => (ret'.first = "true" /\ ~SecondRequested')
     /\ (SecondRequested' /\ ~SecondRequested) =>
          /\ pc = "sleep"
          /\ ret.first = "true"
          /\ Len(requests') = Len(requests) + 1
          /\ requests'[Len(requests')].attempt = 1
     /\ ret'.first = "false" => (pc' # "sleep" /\ ~SecondRequested')]_vars

\* The pause is over and the second message is on its way, after a first
\* message that needed its retry.
C26_Witness ==
  /\ ret.first = "true"
  /\ Len(RequestsOf("first")) = 2
  /\ Len(RequestsOf("second")) = 1
  /\ pc = "req1"
  /\ cur = "second"


(***************************************************************************)
(* C27.  For every text and max_bytes, _truncate_by_bytes returns the      *)
(* longest prefix in whole characters that fits: the result is text[:k],   *)
(* its bytes are at most max_bytes, and when the text does not fit, the    *)
(* prefix with one more character exceeds max_bytes; max_bytes <= 0 gives  *)
(* the empty string.                                                       *)
(***************************************************************************)
C27_LongestFittingPrefix ==
  \A i \in 1..Len(applied) :
    LET call == applied[i]
        k == CharLen(call.result)
    IN call.fn = "_truncate_by_bytes" =>
         /\ call.max_bytes <= 0 => call.result = << >>
         /\ call.result = Slice(call.text, k)
         /\ call.max_bytes > 0 =>
              /\ ByteLen(call.result) <= call.max_bytes
              /\ k < CharLen(call.text) =>
                   ByteLen(Slice(call.text, k + 1)) > call.max_bytes
              /\ ByteLen(call.text) <= call.max_bytes => call.result = call.text

\* A cut that ends exactly on the ceiling, in the middle of a run of 3-byte
\* characters that follows a 2-byte one.
C27_Witness ==
  /\ applied # << >>
  /\ applied[1].fn = "_truncate_by_bytes"
  /\ applied[1].max_bytes = 8
  /\ ByteLen(applied[1].text) > 8
  /\ applied[1].text[1] = [c |-> "b", n |-> 1]
  /\ applied[1].result = << [c |-> "b", n |-> 1], [c |-> "z", n |-> 2] >>


(***************************************************************************)
(* C28.  The health flags describe the most recent call only.  After any   *)
(* sequence of calls on one AIFilter: right after a batch_filter,          *)
(* last_filter_had_llm_failure is True iff a request of that batch_filter  *)
(* failed, whatever the flag was before; right after a                     *)
(* generate_daily_summary, last_summary_had_llm_failure is True iff that   *)
(* call returned the fallback summary because the request raised or its    *)
(* text was blank or blocklisted.                                          *)
(***************************************************************************)
C28_FlagsOfLatestCall ==
  \A i \in 1..Len(applied) :
    LET call == applied[i]
    IN /\ call.fn = "batch_filter" =>
            (ai_filter.last_filter_had_llm_failure
               <=> \E j \in 1..Len(call.answers) : call.answers[j].raises)
       /\ call.fn = "generate_daily_summary" =>
            /\ ai_filter.last_summary_had_llm_failure
                 <=> (call.projects # << >> /\ TextQualityProblem(call.completion))
            /\ ai_filter.last_summary_had_llm_failure
                 <=> (/\ call.projects # << >>
                      /\ call.result.summary = _build_fallback_summary(call.projects))

\* A batch_filter without failure on a filter whose flag was set by an
\* earlier batch: the flag is down again.
C28_Witness ==
  /\ applied # << >>
  /\ applied[1].fn = "batch_filter"
  /\ applied[1].before.last_filter_had_llm_failure
  /\ applied[1].projects # << >>
  /\ ~ai_filter.last_filter_had_llm_failure

\* C29: two run_daily_task executions on the same date, interleaved in any
\* order, with overlapping batches: no ledger write (save_daily_push_records)
\* ends in an error, and once both runs are over the ledger holds exactly
\* one entry for each (identifier, date) pair that either run recorded.
C29_ConcurrentRunsKeepLedger ==
  /\ \A p \in Runs : runs[p].raised_in # "save_daily_push_records"
  /\ (\A p \in Runs : runs[p].pc = "closed") =>
       /\ BagToSet(ledger) =
            UNION {{[repo_name |-> runs[p].top[i],
                     pushed_date |-> isoformat(DateOf(today))] :
                      i \in 1..Len(runs[p].top)} :
                     p \in {q \in Runs : runs[q].wrote}}
       /\ \A e \in BagToSet(ledger) : CopiesIn(e, ledger) = 1

(***************************************************************************)
(* C30.  An exception inside run_daily_task's try block: in a run that is  *)
(* not dry exactly one send_markdown call carries the failure notice,      *)
(* whatever that call returns the task ends by re-raising, no step of the  *)
(* handler changes the ledger, and the connection is closed; a dry run     *)
(* ends the same way without a request.  On every way out of the task      *)
(* (early return, completed push, failed delivery, exception) the          *)
(* connection is closed, and it is open until then.                        *)
(***************************************************************************)
C30_FailureHandled ==
  [][/\ (task' = "daily" /\ pc' = "done") => conn' = "closed"
     /\ (task' = "daily" /\ pc' \in {"req1", "req2", "sleep"}) => conn' = "open"
     /\ (task' = "daily" /\ cur' = "notice") =>
          /\ ~dry_run'
          /\ ledger' = ledger
          /\ Len(SelectSeq(requests', LAMBDA q : q.call = "notice" /\ q.attempt = 1)) = 1
          /\ pc' = "done" => (outcome' = "raised" /\ ret'.notice \in {"true", "false"})
     /\ (task' = "daily" /\ pc' = "done" /\ outcome' = "raised") =>
          /\ ledger' = ledger
          /\ IF dry_run' THEN requests' = << >> ELSE cur' = "notice"
     /\ (task' = "daily" /\ pc' = "done" /\ cur' # "notice" /\ ~dry_run') =>
          outcome' = "returned"]_vars

\* A run that is not dry raised inside the try block, with earlier pushes on
\* record; its failure notice was sent with a retry and not delivered, and
\* the task has ended by re-raising with the connection closed.
C30_Witness ==
  /\ task = "daily"
  /\ ~dry_run
  /\ pc = "done"
  /\ outcome = "raised"
  /\ ledger # EmptyBag
  /\ Len(requests) = 2
  /\ ret.notice = "false"
  /\ conn = "closed"

=============================================================================
